---- MODULE Spec2Model ----
(***************************************************************************)
(* A model of the HTTP document-delivery pipeline of peerdb search:        *)
(* the HTML and JSON handlers of the document route, the generic JSON      *)
(* writer, static asset serving and the compression helper.                *)
(*                                                                         *)
(* One request is handled at a time.  A handler that calls the external    *)
(* engine is split at that call: the first action runs the handler up to   *)
(* the call (pc = "es"), the second one takes the outcome of the call and  *)
(* runs the handler to its end (pc = "done"); then the server sends the    *)
(* response and is ready for the next request (pc = "idle").               *)
(*                                                                         *)
(* Modelling level: a response is the status and the header map as the     *)
(* handler and http.ServeContent leave them, plus the body bytes.  Of      *)
(* http.ServeContent the conditional GET on If-None-Match is modelled;     *)
(* byte ranges and the HEAD method of the client are not.                  *)
(***************************************************************************)
EXTENDS Integers, Sequences, FiniteSets, TLC

VARIABLES
    service,    \* the Service's configuration (Development)
    pc,         \* "idle", "es" (a call of the external engine is pending), "done"
    req,        \* the request being handled
    locals,     \* the handler's local variables kept across the pending call
    esCalls,    \* the requests issued to the external engine for req
    esResult,   \* what ESClient.PerformRequest returned
    resp,       \* the response
    disk,       \* the key pair files: what CertFile and KeyFile hold
    certificate,\* CertificateManager.certificate
    mu,         \* CertificateManager.mu
    ticker,     \* CertificateManager.ticker and its channel C
    done,       \* CertificateManager.done
    threads,    \* the caller of Start and Stop, and the background task
    readers,    \* the TLS handshakes calling GetCertificate
    lastLoad,   \* the key pair of the most recent successful load
    KnownProperties, \* the table of the standard properties
    populate,   \* where populateStandardProperties is, and its run
    before,     \* the table as it was when the current run began
    reference,  \* the outcome of the last GetStandardPropertyReference
    compressCall, \* the last call of compress: its arguments and its codec
    compressReturn, \* what that call returned
    loggingConfig, \* the LoggingConfig cli.Run is given
    logger,     \* the logger cli.Run has made, or why it has not
    logged      \* the last log event and the writers it came to

deliveryVars == <<service, pc, req, locals, esCalls, esResult, resp>>

managerVars ==
    <<disk, certificate, mu, ticker, done, threads, readers, lastLoad>>

propertiesVars == <<KnownProperties, populate, before, reference>>

compressVars == <<compressCall, compressReturn>>

loggingVars == <<loggingConfig, logger, logged>>

vars ==
    <<deliveryVars, managerVars, propertiesVars, compressVars, loggingVars>>

\* What the handlers of the delivery pipeline never touch.
OutsideDelivery == <<managerVars, propertiesVars, compressVars, loggingVars>>

\* What the CertificateManager never touches.
OutsideManager == <<deliveryVars, propertiesVars, compressVars, loggingVars>>

\* What the bootstrap of the standard properties never touches.
OutsideProperties == <<deliveryVars, managerVars, compressVars, loggingVars>>

\* What compress never touches.
OutsideCompress == <<deliveryVars, managerVars, propertiesVars, loggingVars>>

\* What the set-up of logging never touches.
OutsideLogging == <<deliveryVars, managerVars, propertiesVars, compressVars>>

-----------------------------------------------------------------------------
(* Byte strings.  A byte string is a sequence of runs [c, n]: n >= 1       *)
(* repetitions of the symbol c, no two adjacent runs with the same symbol, *)
(* so that equal byte strings have equal representations whatever the way  *)
(* they were put together.                                                 *)

Run(c, n) == IF n = 0 THEN <<>> ELSE <<[c |-> c, n |-> n]>>

BCat(a, b) ==
    IF a = <<>> THEN b
    ELSE IF b = <<>> THEN a
    ELSE IF a[Len(a)].c = b[1].c
         THEN SubSeq(a, 1, Len(a) - 1)
                \o <<[c |-> b[1].c, n |-> a[Len(a)].n + b[1].n]>>
                \o Tail(b)
         ELSE a \o b

RECURSIVE BLen(_)
BLen(b) == IF b = <<>> THEN 0 ELSE b[1].n + BLen(Tail(b))

\* []byte(s) for a string s given as the sequence of its characters.
RECURSIVE Str(_)
Str(s) == IF s = <<>> THEN <<>> ELSE BCat(Run(s[1], 1), Str(Tail(s)))

\* The value of an absent header (Header.Get returns "").
None == ""

-----------------------------------------------------------------------------
(* Constants of utils.go.                                                  *)

compressionBrotli == "br"
compressionGzip == "gzip"
compressionDeflate == "deflate"
compressionIdentity == "identity"

minCompressionSize == 1024

allCompressions ==
    <<compressionBrotli, compressionGzip, compressionDeflate, compressionIdentity>>

\* A variant of the offers of the JSON branch that offers brotli too.
DocumentOffersWithBrotli == allCompressions

\* The offers of the JSON branch of the document route.
DocumentOffers == <<compressionGzip, compressionDeflate, compressionIdentity>>

-----------------------------------------------------------------------------
(* gddo httputil.NegotiateContentEncoding.  An Accept-Encoding header is   *)
(* the sequence of its parsed entries [Value, Q], Q in thousandths.        *)

QValues == {0, 500, 1000}

NegotiateStep(best, offer, spec) ==
    IF spec.Q > best.q /\ (spec.Value = "*" \/ spec.Value = offer)
    THEN [offer |-> offer, q |-> spec.Q]
    ELSE best

\* for _, offer := range offers { for _, spec := range specs { ... } }
RECURSIVE NegotiateLoop(_, _, _, _)
NegotiateLoop(specs, offers, k, best) ==
    IF k > Len(offers) * Len(specs) THEN best
    ELSE LET i == ((k - 1) \div Len(specs)) + 1
             j == ((k - 1) % Len(specs)) + 1
         IN  NegotiateLoop(specs, offers, k + 1,
                           NegotiateStep(best, offers[i], specs[j]))

NegotiateContentEncoding(specs, offers) ==
    LET best == NegotiateLoop(specs, offers, 1,
                              [offer |-> compressionIdentity, q |-> -1])
    IN  IF best.q = 0 THEN "" ELSE best.offer

-----------------------------------------------------------------------------
(* Responses.  A response is what the handler left in the ResponseWriter:  *)
(* status 0 means that nothing was written.                                *)

NoEtag == <<>>

\* The entity tag of a byte string: `"` + base64(sha256(data)) + `"`.  sha256
\* and the encoding are taken to be free of collisions: the tag is the data.
EtagOf(data) == <<"sha256", data>>

\* If-None-Match: *
AnyEtag == <<"*", <<>>>>

NoLocation == <<>>

NoContentLength == -1

EmptyHeader ==
    [ContentType |-> None, ContentEncoding |-> None,
     ContentLength |-> NoContentLength, CacheControl |-> None, Vary |-> <<>>,
     Etag |-> NoEtag, XContentTypeOptions |-> None, Location |-> NoLocation,
     Peerdb |-> <<>>]

\* The ResponseWriter a handler starts with.
NewResponseWriter == [status |-> 0, header |-> EmptyHeader, body |-> <<>>]

NoError == "nil"
ErrNotFound == "not found"
ErrCanceled == "context canceled"
ErrDeadlineExceeded == "context deadline exceeded"
ErrOther == "error"

\* net/http.Error: drops Content-Length, sets the plain-text content type
\* and nosniff, writes the status and the message.
httpError(w, message, code) ==
    [status |-> code,
     header |-> [w.header EXCEPT !.ContentLength = NoContentLength,
                                 !.ContentType = "text/plain; charset=utf-8",
                                 !.XContentTypeOptions = "nosniff"],
     body |-> Run(message, 1)]

NotFound(w) == httpError(w, "404 page not found", 404)

\* A variant that answers 500 whatever the error.
internalServerErrorAlways(w, err) ==
    httpError(w, "500 internal server error", 500)

internalServerError(w, err) ==
    IF err = ErrCanceled THEN w
    ELSE IF err = ErrDeadlineExceeded THEN w
    ELSE httpError(w, "500 internal server error", 500)

badRequest(w) == httpError(w, "400 bad request", 400)

\* net/http.ServeContent with an empty name and a zero modification time:
\* a conditional GET whose If-None-Match matches the Etag header is answered
\* 304 without content; otherwise the content is sent with status 200, and
\* with a Content-Length when no Content-Encoding is set.
IfNoneMatchMatches(inm, etag) ==
    /\ inm # <<>>
    /\ etag # NoEtag
    /\ (inm = AnyEtag \/ inm = etag)

ServeContent(w, inm, content) ==
    IF IfNoneMatchMatches(inm, w.header.Etag)
    THEN [status |-> 304,
          header |-> [w.header EXCEPT !.ContentType = None,
                                      !.ContentLength = NoContentLength],
          body |-> <<>>]
    ELSE [status |-> 200,
          header |-> IF w.header.ContentEncoding = None
                     THEN [w.header EXCEPT !.ContentLength = BLen(content)]
                     ELSE w.header,
          body |-> content]


-----------------------------------------------------------------------------
(* compress.  A codec is modelled as a framing of its input that is        *)
(* injective and names the codec (one symbol standing for the codec's       *)
(* format, then the input); the size of its output plays no part.          *)
(* werr and cerr are the results of the codec writer's Write and Close.    *)

Frame(compression, data) == BCat(Run(compression, 1), data)

\* flate.NewWriter fails for a level outside -2..9 only.
flateNewWriter(level) ==
    IF level \in -2..9 THEN NoError ELSE "flate: invalid compression level"

DefaultCompression == -1

\* A variant in which the error of Close hides the error of Write.
compressCloseErrorFirst(compression, data, werr, cerr) ==
    IF compression \in {compressionBrotli, compressionGzip, compressionDeflate}
    THEN LET err == IF cerr = NoError THEN werr ELSE cerr
         IN  IF err # NoError
             THEN [data |-> <<>>, err |-> err, closed |-> TRUE]
             ELSE [data |-> Frame(compression, data), err |-> NoError,
                   closed |-> TRUE]
    ELSE IF compression = compressionIdentity
    THEN [data |-> data, err |-> NoError, closed |-> FALSE]
    ELSE [data |-> <<>>, err |-> "unknown compression", closed |-> FALSE]

\* A variant that hands the data back for a compression it does not know.
compressPassesUnknownThrough(compression, data, werr, cerr) ==
    IF compression \in {compressionBrotli, compressionGzip, compressionDeflate}
    THEN LET err == IF werr = NoError THEN cerr ELSE werr
         IN  IF err # NoError
             THEN [data |-> <<>>, err |-> err, closed |-> TRUE]
             ELSE [data |-> Frame(compression, data), err |-> NoError,
                   closed |-> TRUE]
    ELSE [data |-> data, err |-> NoError, closed |-> FALSE]

\* compress(compression, data) with a codec whose Write returns werr and
\* whose Close returns cerr; closed tells whether Close was called.  On an
\* error the data returned is nil.
compress(compression, data, werr, cerr) ==
    IF compression = compressionDeflate
       /\ flateNewWriter(DefaultCompression) # NoError
    THEN [data |-> <<>>, err |-> flateNewWriter(DefaultCompression),
          closed |-> FALSE]
    ELSE IF compression \in {compressionBrotli, compressionGzip, compressionDeflate}
    THEN LET err == IF werr = NoError THEN cerr ELSE werr
         IN  IF err # NoError
             THEN [data |-> <<>>, err |-> err, closed |-> TRUE]
             ELSE [data |-> Frame(compression, data), err |-> NoError,
                   closed |-> TRUE]
    ELSE IF compression = compressionIdentity
    THEN [data |-> data, err |-> NoError, closed |-> FALSE]
    ELSE [data |-> <<>>, err |-> "unknown compression", closed |-> FALSE]

-----------------------------------------------------------------------------
(* Identifiers (package identifier): fixed length, characters of a         *)
(* URL-safe alphabet.                                                      *)

IdLen == 3

IdAlphabet == {"a", "b"}

Valid(id) == Len(id) = IdLen /\ \A i \in 1..Len(id) : id[i] \in IdAlphabet

ValidId == [i \in 1..IdLen |-> "a"]

\* One identifier of the right shape, one too short, one too long and one
\* with a character outside the alphabet.
RequestIds ==
    {ValidId,
     [i \in 1..(IdLen - 1) |-> "a"],
     [i \in 1..(IdLen + 1) |-> "a"],
     [i \in 1..IdLen |-> IF i = IdLen THEN "%" ELSE "a"]}

-----------------------------------------------------------------------------
(* Requests.                                                               *)

AE(v, q) == [Value |-> v, Q |-> q]

\* Accept-Encoding headers: none, single encodings, lists with equal and
\* with different weights, exclusions (q=0) by name and by wildcard.
AcceptEncodings ==
    {<<>>,
     <<AE("br", 1000)>>, <<AE("gzip", 1000)>>, <<AE("deflate", 1000)>>,
     <<AE("identity", 1000)>>, <<AE("*", 1000)>>,
     <<AE("br", 1000), AE("gzip", 1000)>>,
     <<AE("deflate", 1000), AE("gzip", 1000)>>,
     <<AE("gzip", 500), AE("deflate", 1000)>>,
     <<AE("identity", 0)>>, <<AE("*", 0)>>, <<AE("gzip", 0)>>,
     <<AE("gzip", 1000), AE("*", 0)>>,
     <<AE("br", 1000), AE("*", 0)>>}

IfNoneMatches == {<<>>, AnyEtag}

\* The request ID that idFromRequest reads from the request's context.
RequestID == "request-id"

-----------------------------------------------------------------------------
(* The external engine behind ESClient.PerformRequest.  It stores JSON     *)
(* documents of several sizes and honours the Accept-Encoding of a GET:    *)
(* the body it returns is the document in that encoding.                   *)

StoredDocuments == {Run("j", 11), Run("j", 1024), Run("j", 2000)}

EngineErrors == {ErrNotFound, ErrOther, ErrCanceled, ErrDeadlineExceeded}

NoResult == [err |-> NoError, Body |-> <<>>, ContentType |-> None,
             ContentLength |-> NoContentLength, Document |-> <<>>]

EngineBody(document, acceptEncoding) ==
    IF acceptEncoding = compressionIdentity THEN document
    ELSE Frame(acceptEncoding, document)

\* The engine's answer to GET /docs/_source/{id} for a stored document.
EngineSource(document, acceptEncoding) ==
    [err |-> NoError,
     Body |-> EngineBody(document, acceptEncoding),
     ContentType |-> "application/json",
     ContentLength |-> BLen(EngineBody(document, acceptEncoding)),
     Document |-> document]

\* The results PerformRequest can return for a call: a failure (not found,
\* another error, the request's context cancelled or past its deadline), or
\* the engine's answer.
PerformRequest(call) ==
    {[NoResult EXCEPT !.err = e] : e \in EngineErrors}
    \cup
    IF call.Method = "HEAD" THEN {NoResult}
    ELSE {EngineSource(d, call.AcceptEncoding) : d \in StoredDocuments}

-----------------------------------------------------------------------------
(* contentTypeMux.Handle adds Vary: Accept and calls the HTML or the JSON  *)
(* handler, as content negotiation on Accept decides.                      *)

MuxResponseWriter ==
    [NewResponseWriter EXCEPT !.header.Vary = <<"Accept">>]

-----------------------------------------------------------------------------
(* DocumentGetGetJSON, up to the call of the external engine.  The result  *)
(* is the response written so far, the local contentEncoding and the calls *)
(* issued.                                                                 *)

\* A variant that calls the engine without validating the identifier.
DocumentGetGetJSONStartUnvalidated(r) ==
    LET contentEncoding ==
            NegotiateContentEncoding(r.AcceptEncoding, DocumentOffers)
    IN  IF contentEncoding = ""
        THEN [w |-> httpError(MuxResponseWriter, "406 not acceptable", 406),
              contentEncoding |-> contentEncoding, calls |-> <<>>]
        ELSE [w |-> MuxResponseWriter,
              contentEncoding |-> contentEncoding,
              calls |-> <<[Method |-> "GET",
                           Path |-> <<"/docs/_source/", r.id>>,
                           AcceptEncoding |-> contentEncoding,
                           XOpaqueID |-> RequestID]>>]

DocumentGetGetJSONStart(r) ==
    LET contentEncoding ==
            NegotiateContentEncoding(r.AcceptEncoding, DocumentOffers)
    IN  IF contentEncoding = ""
        THEN [w |-> httpError(MuxResponseWriter, "406 not acceptable", 406),
              contentEncoding |-> contentEncoding, calls |-> <<>>]
        ELSE IF ~Valid(r.id)
        THEN [w |-> httpError(MuxResponseWriter, "400 bad request", 400),
              contentEncoding |-> contentEncoding, calls |-> <<>>]
        ELSE [w |-> MuxResponseWriter,
              contentEncoding |-> contentEncoding,
              calls |-> <<[Method |-> "GET",
                           Path |-> <<"/docs/_source/", r.id>>,
                           AcceptEncoding |-> contentEncoding,
                           XOpaqueID |-> RequestID]>>]

\* A variant that does not tell a missing document from another failure.
DocumentGetGetJSONEndNotFoundAsError(r, w, contentEncoding, res) ==
    IF res.err # NoError THEN internalServerError(w, res.err)
    ELSE LET etag == EtagOf(res.Body)
             h == [w.header EXCEPT
                     !.ContentType = res.ContentType,
                     !.ContentEncoding =
                         IF contentEncoding # compressionIdentity
                         THEN contentEncoding ELSE @,
                     !.ContentLength =
                         IF contentEncoding # compressionIdentity
                         THEN @ ELSE res.ContentLength,
                     !.CacheControl = "no-cache",
                     !.Vary = Append(@, "Accept-Encoding"),
                     !.Etag = etag,
                     !.XContentTypeOptions = "nosniff"]
         IN  ServeContent([w EXCEPT !.header = h], r.IfNoneMatch, res.Body)

\* A variant that hashes the document rather than the bytes received.
DocumentGetGetJSONEndHashesDocument(r, w, contentEncoding, res) ==
    IF res.err = ErrNotFound THEN NotFound(w)
    ELSE IF res.err # NoError THEN internalServerError(w, res.err)
    ELSE LET etag == EtagOf(res.Document)
             h == [w.header EXCEPT
                     !.ContentType = res.ContentType,
                     !.ContentEncoding =
                         IF contentEncoding # compressionIdentity
                         THEN contentEncoding ELSE @,
                     !.ContentLength =
                         IF contentEncoding # compressionIdentity
                         THEN @ ELSE res.ContentLength,
                     !.CacheControl = "no-cache",
                     !.Vary = Append(@, "Accept-Encoding"),
                     !.Etag = etag,
                     !.XContentTypeOptions = "nosniff"]
         IN  ServeContent([w EXCEPT !.header = h], r.IfNoneMatch, res.Body)

\* DocumentGetGetJSON, from the return of the call on.
DocumentGetGetJSONEnd(r, w, contentEncoding, res) ==
    IF res.err = ErrNotFound THEN NotFound(w)
    ELSE IF res.err # NoError THEN internalServerError(w, res.err)
    ELSE LET etag == EtagOf(res.Body)
             h == [w.header EXCEPT
                     !.ContentType = res.ContentType,
                     !.ContentEncoding =
                         IF contentEncoding # compressionIdentity
                         THEN contentEncoding ELSE @,
                     !.ContentLength =
                         IF contentEncoding # compressionIdentity
                         THEN @ ELSE res.ContentLength,
                     !.CacheControl = "no-cache",
                     !.Vary = Append(@, "Accept-Encoding"),
                     !.Etag = etag,
                     !.XContentTypeOptions = "nosniff"]
         IN  ServeContent([w EXCEPT !.header = h], r.IfNoneMatch, res.Body)

-----------------------------------------------------------------------------
(* Static assets: compressedFiles and compressedFilesEtags, built at       *)
(* startup with one entry per supported encoding and asset path.           *)

StaticSizes ==
    ("/index.html" :>
        [identity |-> 1500, gzip |-> 800, deflate |-> 790, br |-> 700])
    @@ ("/assets/app.js" :>
        [identity |-> 5000, gzip |-> 1800, deflate |-> 1790, br |-> 1500])
    @@ ("/assets/app.css" :>
        [identity |-> 1000, gzip |-> 400, deflate |-> 390, br |-> 350])
    @@ ("/assets/icon.png" :>
        [identity |-> 3000, gzip |-> 2990, deflate |-> 2980, br |-> 2985])
    @@ ("/site.webmanifest" :>
        [identity |-> 300, gzip |-> 200, deflate |-> 190, br |-> 180])

StaticPaths == DOMAIN StaticSizes

HasFile(compression, path) ==
    /\ path \in StaticPaths
    /\ compression \in {allCompressions[i] : i \in 1..Len(allCompressions)}

\* compressedFiles[compression][path]
compressedFiles(compression, path) ==
    IF compression = compressionIdentity
    THEN Run(path, StaticSizes[path][compression])
    ELSE BCat(Run(compression, 1), Run(path, StaticSizes[path][compression] - 1))

\* compressedFilesEtags[compression][path]
compressedFilesEtags(compression, path) ==
    EtagOf(compressedFiles(compression, path))

\* mime.TypeByExtension(filepath.Ext(path))
TypeByExtension(path) ==
    CASE path = "/index.html" -> "text/html; charset=utf-8"
      [] path = "/assets/app.js" -> "text/javascript; charset=utf-8"
      [] path = "/assets/app.css" -> "text/css; charset=utf-8"
      [] path = "/assets/icon.png" -> "image/png"
      [] OTHER -> ""

\* A variant that registers /index.html as well.
serveStaticFilesWithIndex == StaticPaths

\* The routes serveStaticFiles registers.
serveStaticFiles == {path \in StaticPaths : path # "/index.html"}

staticFile(w, r, path, immutable) ==
    LET negotiated == NegotiateContentEncoding(r.AcceptEncoding, allCompressions)
    IN  IF negotiated = ""
        THEN httpError(w, "406 not acceptable", 406)
        ELSE IF ~HasFile(negotiated, path)
        THEN internalServerError(w, ErrOther)
        ELSE
        LET small == BLen(compressedFiles(negotiated, path)) <= minCompressionSize
            contentEncoding == IF small THEN compressionIdentity ELSE negotiated
        IN  IF ~HasFile(contentEncoding, path)
            THEN internalServerError(w, ErrOther)
            ELSE IF TypeByExtension(path) = ""
            THEN internalServerError(w, ErrOther)
            ELSE
            LET data == compressedFiles(contentEncoding, path)
                h == [w.header EXCEPT
                        !.ContentType = TypeByExtension(path),
                        !.ContentEncoding =
                            IF contentEncoding # compressionIdentity
                            THEN contentEncoding ELSE @,
                        !.ContentLength =
                            IF contentEncoding # compressionIdentity
                            THEN @ ELSE BLen(data),
                        !.CacheControl =
                            IF immutable
                            THEN "public,max-age=31536000,immutable,stale-while-revalidate=86400"
                            ELSE "no-cache",
                        !.Vary = Append(@, "Accept-Encoding"),
                        !.Etag = compressedFilesEtags(contentEncoding, path),
                        !.XContentTypeOptions = "nosniff"]
            IN  ServeContent([w EXCEPT !.header = h], r.IfNoneMatch, data)

\* Service.Proxy: the answer of the development server behind the reverse
\* proxy, or 502 when it cannot be reached.
Proxy(w, upstream) ==
    IF upstream = "up"
    THEN [status |-> 200,
          header |-> [w.header EXCEPT !.ContentType = "text/html"],
          body |-> Run("development server", 1)]
    ELSE [w EXCEPT !.status = 502]

-----------------------------------------------------------------------------
(* Search sessions (getSearch) and route paths (Service.path).             *)

Searches == {[ID |-> "s1", Text |-> "q1"]}

NoSearch == [ID |-> "", Text |-> ""]

\* url.Values of the request: a parameter is a sequence of values, empty
\* when the parameter is absent.
Has(form, key) == form[key] # <<>>

\* The session of the "s" parameter if it is known and agrees with "q",
\* the session of the text "q" when there is no "s"; nil otherwise.
getSearch(form) ==
    LET found == IF Has(form, "s")
                 THEN {sh \in Searches : sh.ID = form.s[1]
                                          /\ (Has(form, "q") => sh.Text = form.q[1])}
                 ELSE {sh \in Searches : Has(form, "q") /\ sh.Text = form.q[1]}
    IN  IF found = {} THEN NoSearch ELSE CHOOSE sh \in found : TRUE

\* s.path("DocumentGet", {id}, query): the document URL with that query.
DocumentPath(id, query) == [Path |-> <<"/d/", id>>, Query |-> query]

Redirect(w, location) ==
    [w EXCEPT !.header.Location = <<location>>, !.status = 303]

-----------------------------------------------------------------------------
(* DocumentGetGetHTML, up to the call of the external engine.              *)

\* A variant that redirects to the session URL whenever a session is found.
DocumentGetGetHTMLStartAlwaysRedirects(r) ==
    IF ~Valid(r.id)
    THEN [w |-> httpError(MuxResponseWriter, "400 bad request", 400),
          calls |-> <<>>]
    ELSE
    LET sh == getSearch(r.Form)
        check == [w |-> MuxResponseWriter,
                  calls |-> <<[Method |-> "HEAD",
                               Path |-> <<"/docs/_doc/", r.id>>,
                               AcceptEncoding |-> None,
                               XOpaqueID |-> RequestID]>>]
    IN  IF Has(r.Form, "s") \/ Has(r.Form, "q")
        THEN IF sh = NoSearch
             THEN [w |-> Redirect(MuxResponseWriter, DocumentPath(r.id, <<>>)),
                   calls |-> <<>>]
             ELSE [w |-> Redirect(MuxResponseWriter,
                                  DocumentPath(r.id, <<<<"s", sh.ID>>>>)),
                   calls |-> <<>>]
        ELSE check

DocumentGetGetHTMLStart(r) ==
    IF ~Valid(r.id)
    THEN [w |-> httpError(MuxResponseWriter, "400 bad request", 400),
          calls |-> <<>>]
    ELSE
    LET sh == getSearch(r.Form)
        check == [w |-> MuxResponseWriter,
                  calls |-> <<[Method |-> "HEAD",
                               Path |-> <<"/docs/_doc/", r.id>>,
                               AcceptEncoding |-> None,
                               XOpaqueID |-> RequestID]>>]
    IN  IF Has(r.Form, "s") \/ Has(r.Form, "q")
        THEN IF sh = NoSearch
             THEN [w |-> Redirect(MuxResponseWriter, DocumentPath(r.id, <<>>)),
                   calls |-> <<>>]
             ELSE IF Has(r.Form, "q")
             THEN [w |-> Redirect(MuxResponseWriter,
                                  DocumentPath(r.id, <<<<"s", sh.ID>>>>)),
                   calls |-> <<>>]
             ELSE check
        ELSE check

\* DocumentGetGetHTML, from the return of the call on.
\* A variant that serves the shell for a missing document too.
DocumentGetGetHTMLEndIgnoresNotFound(r, w, development, res, upstream) ==
    IF res.err \notin {NoError, ErrNotFound} THEN internalServerError(w, res.err)
    ELSE IF development # "" THEN Proxy(w, upstream)
    ELSE staticFile(w, r, "/index.html", FALSE)

DocumentGetGetHTMLEnd(r, w, development, res, upstream) ==
    IF res.err = ErrNotFound THEN NotFound(w)
    ELSE IF res.err # NoError THEN internalServerError(w, res.err)
    ELSE IF development # "" THEN Proxy(w, upstream)
    ELSE staticFile(w, r, "/index.html", FALSE)

-----------------------------------------------------------------------------
(* writeJSON.  The data is a JSON string of Size characters, or a value    *)
(* json cannot marshal; order is the order in which the range over the     *)
(* metadata map yields its keys.                                           *)

MarshalWithoutEscapeHTML(data) ==
    IF data.Kind = "string"
    THEN [data |-> BCat(Run("\"", 1), BCat(Run("x", data.Size), Run("\"", 1))),
          err |-> NoError]
    ELSE [data |-> <<>>, err |-> "json: unsupported type"]

RECURSIVE hashWriteValues(_, _)
hashWriteValues(hash, value) ==
    IF value = <<>> THEN hash
    ELSE hashWriteValues(BCat(hash, Str(value[1])), Tail(value))

\* The bytes written to the hash: the encoded body, then for every key of
\* the metadata, in the order of the iteration, the key and its values.
RECURSIVE hashWriteMetadata(_, _, _)
hashWriteMetadata(hash, metadata, order) ==
    IF order = <<>> THEN hash
    ELSE hashWriteMetadata(
             hashWriteValues(BCat(hash, Str(order[1])), metadata[order[1]]),
             metadata, Tail(order))

\* textproto.CanonicalMIMEHeaderKey(peerDBMetadataHeaderPrefix + key)
MetadataHeaderKey(key) == <<"Peerdb-">> \o key

\* A variant that sets Content-Length whatever the encoding.
writeJSONAlwaysContentLength(w, r, contentEncoding, data, metadata, order, werr, cerr) ==
    LET marshaled == MarshalWithoutEscapeHTML(data)
        encoding == IF BLen(marshaled.data) <= minCompressionSize
                    THEN compressionIdentity ELSE contentEncoding
        compressed == compress(encoding, marshaled.data, werr, cerr)
        encoded == compressed.data
        etag == EtagOf(hashWriteMetadata(encoded, metadata, order))
        h == [w.header EXCEPT
                !.Peerdb = [n \in {MetadataHeaderKey(k) : k \in DOMAIN metadata}
                              |-> metadata[Tail(n)]],
                !.ContentType = "application/json",
                !.ContentEncoding =
                    IF encoding # compressionIdentity THEN encoding ELSE @,
                !.ContentLength = BLen(encoded),
                !.CacheControl = "no-cache",
                !.Vary = Append(@, "Accept-Encoding"),
                !.Etag = etag,
                !.XContentTypeOptions = "nosniff"]
    IN  IF marshaled.err # NoError THEN internalServerError(w, marshaled.err)
        ELSE IF compressed.err # NoError THEN internalServerError(w, compressed.err)
        ELSE ServeContent([w EXCEPT !.header = h], r.IfNoneMatch, encoded)

writeJSON(w, r, contentEncoding, data, metadata, order, werr, cerr) ==
    LET marshaled == MarshalWithoutEscapeHTML(data)
        encoding == IF BLen(marshaled.data) <= minCompressionSize
                    THEN compressionIdentity ELSE contentEncoding
        compressed == compress(encoding, marshaled.data, werr, cerr)
        encoded == compressed.data
        etag == EtagOf(hashWriteMetadata(encoded, metadata, order))
        h == [w.header EXCEPT
                !.Peerdb = [n \in {MetadataHeaderKey(k) : k \in DOMAIN metadata}
                              |-> metadata[Tail(n)]],
                !.ContentType = "application/json",
                !.ContentEncoding =
                    IF encoding # compressionIdentity THEN encoding ELSE @,
                !.ContentLength =
                    IF encoding # compressionIdentity THEN @ ELSE BLen(encoded),
                !.CacheControl = "no-cache",
                !.Vary = Append(@, "Accept-Encoding"),
                !.Etag = etag,
                !.XContentTypeOptions = "nosniff"]
    IN  IF marshaled.err # NoError THEN internalServerError(w, marshaled.err)
        ELSE IF compressed.err # NoError THEN internalServerError(w, compressed.err)
        ELSE ServeContent([w EXCEPT !.header = h], r.IfNoneMatch, encoded)

-----------------------------------------------------------------------------
(* The actions.                                                            *)

NoRequest == [handler |-> "none"]

NoLocals == [contentEncoding |-> ""]

Ready == pc = "idle"

JSONRequests ==
    [handler : {"DocumentGetGetJSON"}, id : RequestIds,
     AcceptEncoding : AcceptEncodings, IfNoneMatch : IfNoneMatches]

DocumentGetJSONBegin ==
    /\ Ready
    /\ \E r \in JSONRequests :
          LET out == DocumentGetGetJSONStart(r)
          IN  /\ req' = r
              /\ resp' = out.w
              /\ locals' = [contentEncoding |-> out.contentEncoding]
              /\ esCalls' = out.calls
              /\ pc' = IF out.calls = <<>> THEN "done" ELSE "es"
    /\ esResult' = NoResult
    /\ UNCHANGED <<service, OutsideDelivery>>

DocumentGetJSONFinish ==
    /\ pc = "es"
    /\ req.handler = "DocumentGetGetJSON"
    /\ \E res \in PerformRequest(esCalls[Len(esCalls)]) :
          /\ esResult' = res
          /\ resp' = DocumentGetGetJSONEnd(req, resp, locals.contentEncoding, res)
    /\ pc' = "done"
    /\ UNCHANGED <<service, req, locals, esCalls, OutsideDelivery>>

Forms ==
    [s : {<<>>, <<"s1">>, <<"s9">>}, q : {<<>>, <<"q1">>, <<"q9">>}]

\* redirects counts the redirects the client has followed to come to the
\* request.
HTMLRequests ==
    [handler : {"DocumentGetGetHTML"}, id : RequestIds, Form : Forms,
     AcceptEncoding : AcceptEncodings, IfNoneMatch : IfNoneMatches,
     redirects : {0}]

DocumentGetHTMLBegin ==
    /\ Ready
    /\ \E r \in HTMLRequests :
          LET out == DocumentGetGetHTMLStart(r)
          IN  /\ req' = r
              /\ resp' = out.w
              /\ esCalls' = out.calls
              /\ pc' = IF out.calls = <<>> THEN "done" ELSE "es"
    /\ locals' = NoLocals
    /\ esResult' = NoResult
    /\ UNCHANGED <<service, OutsideDelivery>>

\* How many redirects a client follows before it gives up.
MaxRedirects == 3

\* The values of a key in a query.
RECURSIVE QueryValues(_, _)
QueryValues(query, key) ==
    IF query = <<>> THEN <<>>
    ELSE (IF Head(query)[1] = key THEN <<Head(query)[2]>> ELSE <<>>)
         \o QueryValues(Tail(query), key)

\* req.Form of a GET request: the parameters of the query of its URL.
ParseForm(query) ==
    [s |-> QueryValues(query, "s"), q |-> QueryValues(query, "q")]

\* The client follows the Location of a 303 of the HTML handler: the same
\* request, but for the URL of the Location.
FollowRedirect ==
    /\ pc = "done"
    /\ req.handler = "DocumentGetGetHTML"
    /\ resp.status = 303
    /\ req.redirects < MaxRedirects
    /\ LET r == [req EXCEPT !.Form = ParseForm(resp.header.Location[1].Query),
                            !.redirects = @ + 1]
           out == DocumentGetGetHTMLStart(r)
       IN  /\ req' = r
           /\ resp' = out.w
           /\ esCalls' = out.calls
           /\ pc' = IF out.calls = <<>> THEN "done" ELSE "es"
    /\ locals' = NoLocals
    /\ esResult' = NoResult
    /\ UNCHANGED <<service, OutsideDelivery>>

DocumentGetHTMLFinish ==
    /\ pc = "es"
    /\ req.handler = "DocumentGetGetHTML"
    /\ \E res \in PerformRequest(esCalls[Len(esCalls)]), upstream \in {"up", "down"} :
          /\ esResult' = res
          /\ resp' = DocumentGetGetHTMLEnd(req, resp, service.Development, res, upstream)
    /\ pc' = "done"
    /\ UNCHANGED <<service, req, locals, esCalls, OutsideDelivery>>

StaticRequests ==
    [handler : {"StaticFile"}, path : serveStaticFiles,
     AcceptEncoding : AcceptEncodings, IfNoneMatch : IfNoneMatches]

\* Service.StaticFile, the handler of the static routes.
StaticFile ==
    /\ Ready
    /\ \E r \in StaticRequests :
          /\ req' = r
          /\ resp' = staticFile(NewResponseWriter, r, r.path, TRUE)
    /\ pc' = "done"
    /\ locals' = NoLocals
    /\ esCalls' = <<>>
    /\ esResult' = NoResult
    /\ UNCHANGED <<service, OutsideDelivery>>

JSONData ==
    {[Kind |-> "string", Size |-> n] : n \in {0, 1022, 1023, 2000}}
    \cup {[Kind |-> "chan", Size |-> 0]}

Metadatas ==
    {<<>>,
     (<<"a">> :> <<<<"b", "c">>>>),
     (<<"a", "b">> :> <<<<"c">>>>),
     (<<"a">> :> <<<<"b">>, <<"c">>>>),
     (<<"a">> :> <<<<"b">>>>) @@ (<<"c">> :> <<<<"d">>>>)}

\* The orders in which a range over the map can yield its keys.
IterationOrders(metadata) ==
    {o \in [1..Cardinality(DOMAIN metadata) -> DOMAIN metadata] :
        \A i, j \in DOMAIN o : i # j => o[i] # o[j]}

CodecErrors ==
    [werr : {NoError, "write error"}, cerr : {NoError, "close error"}]

\* A handler that answers with writeJSON, with the content encoding it
\* negotiated.
WriteJSON ==
    /\ Ready
    /\ \E contentEncoding \in {allCompressions[i] : i \in 1..Len(allCompressions)},
          data \in JSONData, metadata \in Metadatas, codec \in CodecErrors,
          inm \in IfNoneMatches :
          \E order \in IterationOrders(metadata) :
             LET r == [handler |-> "writeJSON", contentEncoding |-> contentEncoding,
                       data |-> data, metadata |-> metadata, order |-> order,
                       codec |-> codec, IfNoneMatch |-> inm]
             IN  /\ req' = r
                 /\ resp' = writeJSON(NewResponseWriter, r, contentEncoding, data,
                                      metadata, order, codec.werr, codec.cerr)
    /\ pc' = "done"
    /\ locals' = NoLocals
    /\ esCalls' = <<>>
    /\ esResult' = NoResult
    /\ UNCHANGED <<service, OutsideDelivery>>

\* The handler has returned: the server sends the response and the request's
\* task ends.
ServeHTTPReturns ==
    /\ pc = "done"
    /\ pc' = "idle"
    /\ req' = NoRequest
    /\ locals' = NoLocals
    /\ esCalls' = <<>>
    /\ esResult' = NoResult
    /\ resp' = NewResponseWriter
    /\ UNCHANGED <<service, OutsideDelivery>>

-----------------------------------------------------------------------------
(* The CertificateManager (cmd/search/manager.go).  Three kinds of         *)
(* goroutines: the caller of Start and Stop ("main"), the background task  *)
(* spawned by Start ("task"), and the TLS handshakes that call             *)
(* GetCertificate.  Every step that touches the lock, the certificate or a *)
(* channel is an action of its own.  The key pair files are the            *)
(* environment's: they can be rewritten, one file at a time, at any        *)
(* moment.  A key pair has a version; version 0 stands for a file that     *)
(* cannot be read or parsed.                                               *)

MaxKeyPairs == 2

Readers == {"h1", "h2"}

Main == "main"
Task == "task"

\* A *tls.Certificate: nil, or the pair a load produced.
NilCertificate == [Certificate |-> 0, PrivateKey |-> 0]

\* tls.LoadX509KeyPair: fails when a file cannot be read or parsed, or when
\* the private key does not belong to the certificate.
LoadX509KeyPair(files) ==
    IF files.CertFile = 0 \/ files.KeyFile = 0
    THEN [certificate |-> NilCertificate, err |-> "open: no such file"]
    ELSE IF files.CertFile # files.KeyFile
    THEN [certificate |-> NilCertificate,
          err |-> "tls: private key does not match public key"]
    ELSE [certificate |-> [Certificate |-> files.CertFile,
                           PrivateKey |-> files.KeyFile],
          err |-> NoError]

\* sync.RWMutex: a writer, the readers, and the writer blocked in Lock,
\* which keeps new readers out.
NewRWMutex == [writer |-> FALSE, waiting |-> FALSE, readers |-> {}]

LockAlwaysReady(m) == TRUE

LockReady(m) == ~m.writer /\ m.readers = {}

RLockReady(m) == ~m.writer /\ ~m.waiting

\* time.Ticker: nil before Start; C is its channel, of capacity one.
NilTicker == [state |-> "nil", C |-> 0]

NewTicker == [state |-> "running", C |-> 0]

TickerStopKeepsRunning(t) == t

\* Ticker.Stop: no more ticks are sent; the channel is not drained.
TickerStop(t) == [t EXCEPT !.state = "stopped"]

\* How many times Stop is called.
MaxStops == 2

\* A goroutine: where it is, its local certificate and err, and how many
\* times it has called Stop.
NewThread ==
    [pc |-> "none", certificate |-> NilCertificate, err |-> NoError,
     stops |-> 0]

NewReader == [pc |-> "idle", certificate |-> NilCertificate]

At(t, where) == threads[t].pc = where

Goto(t, where) == [threads EXCEPT ![t].pc = where]

\* The environment rewrites one of the two files.
WriteCertFile ==
    /\ \E v \in 0..MaxKeyPairs :
          /\ v # disk.CertFile
          /\ disk' = [disk EXCEPT !.CertFile = v]
    /\ UNCHANGED <<certificate, mu, ticker, done, threads, readers, lastLoad>>
    /\ UNCHANGED OutsideManager

WriteKeyFile ==
    /\ \E v \in 0..MaxKeyPairs :
          /\ v # disk.KeyFile
          /\ disk' = [disk EXCEPT !.KeyFile = v]
    /\ UNCHANGED <<certificate, mu, ticker, done, threads, readers, lastLoad>>
    /\ UNCHANGED OutsideManager

\* Start is called: it calls reloadCertificate.
Start ==
    /\ At(Main, "none")
    /\ threads' = Goto(Main, "reloadCertificate")
    /\ UNCHANGED <<disk, certificate, mu, ticker, done, readers, lastLoad>>
    /\ UNCHANGED OutsideManager

\* A variant without the early return on a failed load.
reloadCertificateLoadIgnoresError(t) ==
    /\ At(t, "reloadCertificate")
    /\ LET loaded == LoadX509KeyPair(disk)
       IN  /\ threads' =
                 [threads EXCEPT
                    ![t] = [@ EXCEPT !.certificate = loaded.certificate,
                                     !.err = loaded.err,
                                     !.pc = "Lock"]]
           /\ lastLoad' = IF loaded.err = NoError THEN loaded.certificate
                          ELSE lastLoad
    /\ UNCHANGED <<disk, certificate, mu, ticker, done, readers>>
    /\ UNCHANGED OutsideManager

\* A variant in which Start goes on after a failed first load.
reloadCertificateLoadStartGoesOn(t) ==
    /\ At(t, "reloadCertificate")
    /\ LET loaded == LoadX509KeyPair(disk)
       IN  /\ threads' =
                 [threads EXCEPT
                    ![t] = IF loaded.err # NoError
                           THEN [@ EXCEPT !.err = loaded.err,
                                          !.pc = IF t = Main THEN "NewTicker"
                                                 ELSE "select"]
                           ELSE [@ EXCEPT !.certificate = loaded.certificate,
                                          !.err = NoError,
                                          !.pc = "Lock"]]
           /\ lastLoad' = IF loaded.err = NoError THEN loaded.certificate
                          ELSE lastLoad
    /\ UNCHANGED <<disk, certificate, mu, ticker, done, readers>>
    /\ UNCHANGED OutsideManager

\* reloadCertificate, the load: on an error it returns at once, to Start,
\* which returns the error, or to the task, which logs it and selects again.
reloadCertificateLoad(t) ==
    /\ At(t, "reloadCertificate")
    /\ LET loaded == LoadX509KeyPair(disk)
       IN  /\ threads' =
                 [threads EXCEPT
                    ![t] = IF loaded.err # NoError
                           THEN [@ EXCEPT !.err = loaded.err,
                                          !.pc = IF t = Main THEN "failed"
                                                 ELSE "select"]
                           ELSE [@ EXCEPT !.certificate = loaded.certificate,
                                          !.err = NoError,
                                          !.pc = "Lock"]]
           /\ lastLoad' = IF loaded.err = NoError THEN loaded.certificate
                          ELSE lastLoad
    /\ UNCHANGED <<disk, certificate, mu, ticker, done, readers>>
    /\ UNCHANGED OutsideManager

\* c.mu.Lock() is called: from now on no new reader gets the lock.
reloadCertificateLock(t) ==
    /\ At(t, "Lock")
    /\ mu' = [mu EXCEPT !.waiting = TRUE]
    /\ threads' = Goto(t, "Locking")
    /\ UNCHANGED <<disk, certificate, ticker, done, readers, lastLoad>>
    /\ UNCHANGED OutsideManager

\* c.mu.Lock() returns.
reloadCertificateLocked(t) ==
    /\ At(t, "Locking")
    /\ LockReady(mu)
    /\ mu' = [mu EXCEPT !.waiting = FALSE, !.writer = TRUE]
    /\ threads' = Goto(t, "store")
    /\ UNCHANGED <<disk, certificate, ticker, done, readers, lastLoad>>
    /\ UNCHANGED OutsideManager

\* c.certificate = &certificate
reloadCertificateStore(t) ==
    /\ At(t, "store")
    /\ certificate' = threads[t].certificate
    /\ threads' = Goto(t, "Unlock")
    /\ UNCHANGED <<disk, mu, ticker, done, readers, lastLoad>>
    /\ UNCHANGED OutsideManager

\* The deferred c.mu.Unlock(), and the return of nil: to Start, which goes
\* on, or to the task, which selects again.
reloadCertificateUnlock(t) ==
    /\ At(t, "Unlock")
    /\ mu' = [mu EXCEPT !.writer = FALSE]
    /\ threads' = Goto(t, IF t = Main THEN "NewTicker" ELSE "select")
    /\ UNCHANGED <<disk, certificate, ticker, done, readers, lastLoad>>
    /\ UNCHANGED OutsideManager

\* Start after the first load: the ticker, the channel, the goroutine, and
\* the return of nil.
StartReturns ==
    /\ At(Main, "NewTicker")
    /\ ticker' = NewTicker
    /\ done' = "open"
    /\ threads' = [threads EXCEPT ![Main].pc = "started", ![Task].pc = "select"]
    /\ UNCHANGED <<disk, certificate, mu, readers, lastLoad>>
    /\ UNCHANGED OutsideManager

\* The interval has passed: the ticker sends a tick, unless one is pending.
Tick ==
    /\ ticker.state = "running"
    /\ ticker.C = 0
    /\ ticker' = [ticker EXCEPT !.C = 1]
    /\ UNCHANGED <<disk, certificate, mu, done, threads, readers, lastLoad>>
    /\ UNCHANGED OutsideManager

\* select, case <-c.ticker.C
SelectTick ==
    /\ At(Task, "select")
    /\ ticker.C = 1
    /\ ticker' = [ticker EXCEPT !.C = 0]
    /\ threads' = Goto(Task, "reloadCertificate")
    /\ UNCHANGED <<disk, certificate, mu, done, readers, lastLoad>>
    /\ UNCHANGED OutsideManager

\* Stop is called, after Start or after a Stop before: c.ticker.Stop()
Stop ==
    /\ At(Main, "started") \/ At(Main, "stopped")
    /\ threads[Main].stops < MaxStops
    /\ ticker' = TickerStop(ticker)
    /\ threads' = [threads EXCEPT ![Main].pc = "send", ![Main].stops = @ + 1]
    /\ UNCHANGED <<disk, certificate, mu, done, readers, lastLoad>>
    /\ UNCHANGED OutsideManager

\* A variant with a done channel that has a buffer: the send does not wait
\* for the task.
SelectDoneBuffered ==
    /\ At(Main, "send")
    /\ done = "open"
    /\ threads' = [threads EXCEPT
                      ![Main].pc = "stopped",
                      ![Task].pc = IF At(Task, "select") THEN "exited" ELSE @]
    /\ UNCHANGED <<disk, certificate, mu, ticker, done, readers, lastLoad>>
    /\ UNCHANGED OutsideManager

\* c.done <- true meets select, case <-c.done: the channel has no buffer,
\* the send and the receive are one step.  Stop returns, the task returns.
SelectDone ==
    /\ At(Main, "send")
    /\ At(Task, "select")
    /\ done = "open"
    /\ threads' = [threads EXCEPT ![Main].pc = "stopped", ![Task].pc = "exited"]
    /\ UNCHANGED <<disk, certificate, mu, ticker, done, readers, lastLoad>>
    /\ UNCHANGED OutsideManager

\* GetCertificate: c.mu.RLock()
GetCertificateRLock(h) ==
    /\ readers[h].pc = "idle"
    /\ RLockReady(mu)
    /\ mu' = [mu EXCEPT !.readers = @ \cup {h}]
    /\ readers' = [readers EXCEPT ![h].pc = "RLocked"]
    /\ UNCHANGED <<disk, certificate, ticker, done, threads, lastLoad>>
    /\ UNCHANGED OutsideManager

\* The operand of return is evaluated: c.certificate is read.
GetCertificateRead(h) ==
    /\ readers[h].pc = "RLocked"
    /\ readers' = [readers EXCEPT ![h] = [pc |-> "return",
                                          certificate |-> certificate]]
    /\ UNCHANGED <<disk, certificate, mu, ticker, done, threads, lastLoad>>
    /\ UNCHANGED OutsideManager

\* The deferred c.mu.RUnlock(), and the return of what was read.
GetCertificateReturn(h) ==
    /\ readers[h].pc = "return"
    /\ mu' = [mu EXCEPT !.readers = @ \ {h}]
    /\ readers' = [readers EXCEPT ![h] = NewReader]
    /\ UNCHANGED <<disk, certificate, ticker, done, threads, lastLoad>>
    /\ UNCHANGED OutsideManager

\* The zero CertificateManager, with CertFile and KeyFile set.
NewCertificateManager ==
    /\ certificate = NilCertificate
    /\ mu = NewRWMutex
    /\ ticker = NilTicker
    /\ done = "nil"
    /\ threads = [t \in {Main, Task} |-> NewThread]
    /\ readers = [h \in Readers |-> NewReader]
    /\ lastLoad = NilCertificate

-----------------------------------------------------------------------------
(* The bootstrap of the standard properties (properties.go).  A string is  *)
(* a sequence of tokens: words, the space " " and the double quote.  An    *)
(* identifier derived with uuid.NewSHA1 is the tuple of what it was        *)
(* derived from: SHA-1 and the base-58 encoding are taken to be free of    *)
(* collisions.  populateStandardProperties advances by one assignment to   *)
(* KnownProperties at a time.                                              *)

Space == " "
Quote == "\""

claimTypes ==
    <<<<"identifier">>, <<"reference">>,
      <<"text">>, <<"string">>, <<"label">>, <<"amount">>,
      <<"amount", Space, "range">>, <<"enumeration">>, <<"relation">>,
      <<"time">>, <<"time", Space, "range">>, <<"duration">>,
      <<"duration", Space, "range">>,
      <<"file">>, <<"list">>>>

\* fmt.Sprintf(`"%s" claim type`, claimType)
ClaimTypeName(claimType) ==
    <<Quote>> \o claimType \o <<Quote, Space, "claim", Space, "type">>

WikidataLink ==
    "<a href=\"https://www.wikidata.org/wiki/Wikidata:Main_Page\">Wikidata</a>"

builtinProperties ==
    <<[Name |-> <<"is">>,
       DescriptionPlain |-> <<"unspecified type relation between two entities">>,
       DescriptionHTML |-> <<"unspecified type relation between two entities">>,
       Is |-> <<>>],
      [Name |-> <<"property">>,
       DescriptionPlain |-> <<"the entity is a property">>,
       DescriptionHTML |-> <<"the entity is a property">>,
       Is |-> <<>>],
      [Name |-> <<"item">>,
       DescriptionPlain |-> <<"the entity is an item">>,
       DescriptionHTML |-> <<"the entity is an item">>,
       Is |-> <<>>],
      [Name |-> <<"claim", Space, "type">>,
       DescriptionPlain |-> <<"the property maps to a supported claim type">>,
       DescriptionHTML |-> <<"the property maps to a supported claim type">>,
       Is |-> <<>>],
      [Name |-> <<"description">>,
       DescriptionPlain |-> <<"description">>,
       DescriptionHTML |-> <<"description">>,
       Is |-> <<ClaimTypeName(<<"text">>)>>],
      [Name |-> <<"Wikidata", Space, "property", Space, "id">>,
       DescriptionPlain |-> <<"Wikidata property identifier">>,
       DescriptionHTML |-> <<WikidataLink, " property <a href=\"https://www.wikidata.org/wiki/Wikidata:Identifiers\">identifier</a>">>,
       Is |-> <<ClaimTypeName(<<"identifier">>)>>],
      [Name |-> <<"Wikidata", Space, "item", Space, "id">>,
       DescriptionPlain |-> <<"Wikidata item identifier">>,
       DescriptionHTML |-> <<WikidataLink, " item <a href=\"https://www.wikidata.org/wiki/Wikidata:Identifiers\">identifier</a>">>,
       Is |-> <<ClaimTypeName(<<"identifier">>)>>],
      [Name |-> <<"Wikidata", Space, "property", Space, "page">>,
       DescriptionPlain |-> <<"Wikidata property page">>,
       DescriptionHTML |-> <<WikidataLink, " property page IRI">>,
       Is |-> <<ClaimTypeName(<<"reference">>)>>],
      [Name |-> <<"Wikidata", Space, "item", Space, "page">>,
       DescriptionPlain |-> <<"Wikidata item page">>,
       DescriptionHTML |-> <<WikidataLink, " item page IRI">>,
       Is |-> <<ClaimTypeName(<<"reference">>)>>],
      [Name |-> <<"English", Space, "Wikipedia", Space, "article">>,
       DescriptionPlain |-> <<"reference to English Wikipedia article">>,
       DescriptionHTML |-> <<"reference to <a href=\"https://en.wikipedia.org/wiki/Main_Page\">English Wikipedia</a> article">>,
       Is |-> <<ClaimTypeName(<<"reference">>)>>]>>

\* strings.ToUpper, on the words of the names.
ToUpper(token) ==
    CASE token = "is" -> "IS"
      [] token = "property" -> "PROPERTY"
      [] token = "item" -> "ITEM"
      [] token = "claim" -> "CLAIM"
      [] token = "type" -> "TYPE"
      [] token = "description" -> "DESCRIPTION"
      [] token = "Wikidata" -> "WIKIDATA"
      [] token = "id" -> "ID"
      [] token = "page" -> "PAGE"
      [] token = "English" -> "ENGLISH"
      [] token = "Wikipedia" -> "WIKIPEDIA"
      [] token = "article" -> "ARTICLE"
      [] token = "identifier" -> "IDENTIFIER"
      [] token = "reference" -> "REFERENCE"
      [] token = "text" -> "TEXT"
      [] token = "string" -> "STRING"
      [] token = "label" -> "LABEL"
      [] token = "amount" -> "AMOUNT"
      [] token = "range" -> "RANGE"
      [] token = "enumeration" -> "ENUMERATION"
      [] token = "relation" -> "RELATION"
      [] token = "time" -> "TIME"
      [] token = "duration" -> "DURATION"
      [] token = "file" -> "FILE"
      [] token = "list" -> "LIST"
      [] OTHER -> token

\* strings.ReplaceAll(strings.ReplaceAll(strings.ToUpper(data), " ", "_"), `"`, "")
RECURSIVE getMnemonic(_)
getMnemonic(data) ==
    IF data = <<>> THEN <<>>
    ELSE LET upper == ToUpper(Head(data))
             replaced == IF upper = Space THEN "_" ELSE upper
         IN  (IF replaced = Quote THEN <<>> ELSE <<replaced>>)
             \o getMnemonic(Tail(data))

\* The mnemonics the code writes as literals.
IS == <<"IS">>
PROPERTY == <<"PROPERTY">>
DESCRIPTION == <<"DESCRIPTION">>
CLAIM_TYPE == <<"CLAIM", "_", "TYPE">>

getPropertyID(mnemonic) == <<"property", mnemonic>>

\* A variant that leaves the mnemonic of the claim out.
getPropertyClaimIDOfPropertyOnly(propertyMnemonic, claimMnemonic, i) ==
    <<"claim", propertyMnemonic, <<>>, i>>

getPropertyClaimID(propertyMnemonic, claimMnemonic, i) ==
    <<"claim", propertyMnemonic, claimMnemonic, i>>

\* html.EscapeString
EscapeString(str) ==
    [n \in DOMAIN str |-> IF str[n] = Quote THEN "&#34;" ELSE str[n]]

\* A DocumentReference with nothing but the ID and the English name.
Reference(id, name) == [ID |-> id, Name |-> name, Score |-> 0, Scores |-> <<>>]

\* The zero DocumentReference.
ZeroReference == [ID |-> <<>>, Name |-> <<>>, Score |-> 0, Scores |-> <<>>]

DescriptionClaim(mnemonic, plain, html) ==
    [ID |-> getPropertyClaimID(mnemonic, DESCRIPTION, 0),
     Confidence |-> 1,
     Prop |-> Reference(getPropertyID(DESCRIPTION), <<"description">>),
     Plain |-> plain,
     HTML |-> html]

IsClaim(mnemonic, toMnemonic, toName) ==
    [ID |-> getPropertyClaimID(mnemonic, toMnemonic, 0),
     Confidence |-> 1,
     Prop |-> Reference(getPropertyID(IS), <<"is">>),
     To |-> Reference(getPropertyID(toMnemonic), toName)]

\* The append of the claims of builtinProperty.Is, from the n-th one on.
RECURSIVE AppendIs(_, _, _, _)
AppendIs(relation, mnemonic, is, n) ==
    IF n > Len(is) THEN relation
    ELSE AppendIs(Append(relation, IsClaim(mnemonic, getMnemonic(is[n]), is[n])),
                  mnemonic, is, n + 1)

\* A variant that appends the "is" claims to those of the document already
\* in the table.
BuiltinDocumentKeepsRelations(table, builtinProperty) ==
    LET mnemonic == getMnemonic(builtinProperty.Name)
        id == getPropertyID(mnemonic)
        old == IF id \in DOMAIN table THEN table[id].Relation
               ELSE <<IsClaim(mnemonic, PROPERTY, <<"property">>)>>
    IN  [ID |-> id,
         Name |-> builtinProperty.Name,
         Score |-> 0,
         Mnemonic |-> mnemonic,
         Text |-> <<DescriptionClaim(mnemonic, builtinProperty.DescriptionPlain,
                                     builtinProperty.DescriptionHTML)>>,
         Relation |-> AppendIs(old, mnemonic, builtinProperty.Is, 1)]

\* The document of a built-in property, with its "is" claims appended.
BuiltinDocument(table, builtinProperty) ==
    LET mnemonic == getMnemonic(builtinProperty.Name)
    IN  [ID |-> getPropertyID(mnemonic),
         Name |-> builtinProperty.Name,
         Score |-> 0,
         Mnemonic |-> mnemonic,
         Text |-> <<DescriptionClaim(mnemonic, builtinProperty.DescriptionPlain,
                                     builtinProperty.DescriptionHTML)>>,
         Relation |-> AppendIs(<<IsClaim(mnemonic, PROPERTY, <<"property">>)>>,
                               mnemonic, builtinProperty.Is, 1)]

\* A variant without the is -> claim type relation.
ClaimTypeDocumentWithoutMarker(claimType) ==
    LET name == ClaimTypeName(claimType)
        mnemonic == getMnemonic(name)
        description == <<"the property is useful with the ", Quote>>
                       \o claimType \o <<Quote, " claim type">>
    IN  [ID |-> getPropertyID(mnemonic),
         Name |-> name,
         Score |-> 0,
         Mnemonic |-> mnemonic,
         Text |-> <<DescriptionClaim(mnemonic, description,
                                     EscapeString(description))>>,
         Relation |-> <<IsClaim(mnemonic, PROPERTY, <<"property">>)>>]

\* The marker document of a claim type.
ClaimTypeDocument(claimType) ==
    LET name == ClaimTypeName(claimType)
        mnemonic == getMnemonic(name)
        description == <<"the property is useful with the ", Quote>>
                       \o claimType \o <<Quote, " claim type">>
    IN  [ID |-> getPropertyID(mnemonic),
         Name |-> name,
         Score |-> 0,
         Mnemonic |-> mnemonic,
         Text |-> <<DescriptionClaim(mnemonic, description,
                                     EscapeString(description))>>,
         Relation |-> <<IsClaim(mnemonic, PROPERTY, <<"property">>),
                        IsClaim(mnemonic, CLAIM_TYPE,
                                <<"claim", Space, "type">>)>>]

\* A variant that stores the document under its mnemonic.
PutUnderMnemonic(table, document) ==
    [id \in DOMAIN table \cup {document.Mnemonic} |->
        IF id = document.Mnemonic THEN document ELSE table[id]]

\* KnownProperties[id] = document
Put(table, document) ==
    [id \in DOMAIN table \cup {document.ID} |->
        IF id = document.ID THEN document ELSE table[id]]

\* A variant that returns the zero reference for an unknown mnemonic.
GetStandardPropertyReferenceUnchecked(table, mnemonic) ==
    LET id == getPropertyID(mnemonic)
    IN  IF id \notin DOMAIN table
        THEN [panic |-> FALSE, reference |-> ZeroReference]
        ELSE [panic |-> FALSE,
              reference |-> [ID |-> table[id].ID, Name |-> table[id].Name,
                             Score |-> table[id].Score, Scores |-> <<>>]]

GetStandardPropertyReference(table, mnemonic) ==
    LET id == getPropertyID(mnemonic)
    IN  IF id \notin DOMAIN table
        THEN [panic |-> TRUE, reference |-> ZeroReference]
        ELSE [panic |-> FALSE,
              reference |-> [ID |-> table[id].ID, Name |-> table[id].Name,
                             Score |-> table[id].Score, Scores |-> <<>>]]

\* How many times populateStandardProperties is run: by init, then again.
MaxRuns == 2

NotRunning == "return"

\* populateStandardProperties is called: by init() when run is 0.
populateStandardProperties ==
    /\ populate.pc = NotRunning
    /\ populate.run < MaxRuns
    /\ populate' = [pc |-> "builtinProperty", run |-> populate.run + 1,
                    i |-> 1, j |-> 1]
    /\ before' = KnownProperties
    /\ UNCHANGED <<KnownProperties, reference>>
    /\ UNCHANGED OutsideProperties

\* The body of the outer loop up to the inner loop: the document of the
\* i-th built-in property.
PopulateBuiltinProperty ==
    /\ populate.pc = "builtinProperty"
    /\ populate.i <= Len(builtinProperties)
    /\ KnownProperties' =
          Put(KnownProperties,
              BuiltinDocument(KnownProperties, builtinProperties[populate.i]))
    /\ populate' = [populate EXCEPT !.pc = "claimType", !.j = 1]
    /\ UNCHANGED <<before, reference>>
    /\ UNCHANGED OutsideProperties

\* The body of the inner loop: the document of the j-th claim type.
PopulateClaimType ==
    /\ populate.pc = "claimType"
    /\ populate.j <= Len(claimTypes)
    /\ KnownProperties' =
          Put(KnownProperties, ClaimTypeDocument(claimTypes[populate.j]))
    /\ populate' = [populate EXCEPT !.j = @ + 1]
    /\ UNCHANGED <<before, reference>>
    /\ UNCHANGED OutsideProperties

\* The inner loop is over: the next built-in property.
PopulateNext ==
    /\ populate.pc = "claimType"
    /\ populate.j > Len(claimTypes)
    /\ populate' = [populate EXCEPT !.pc = "builtinProperty", !.i = @ + 1]
    /\ UNCHANGED <<KnownProperties, before, reference>>
    /\ UNCHANGED OutsideProperties

\* The outer loop is over.
PopulateReturns ==
    /\ populate.pc = "builtinProperty"
    /\ populate.i > Len(builtinProperties)
    /\ populate' = [populate EXCEPT !.pc = NotRunning]
    /\ UNCHANGED <<KnownProperties, before, reference>>
    /\ UNCHANGED OutsideProperties

\* The mnemonics callers ask for: those of the built-in properties and of
\* the claim types, and some that no document has.
Mnemonics ==
    {getMnemonic(builtinProperties[n].Name) : n \in DOMAIN builtinProperties}
    \cup {getMnemonic(ClaimTypeName(claimTypes[n])) : n \in DOMAIN claimTypes}
    \cup {<<>>, <<"is">>, <<"CLAIM", Space, "TYPE">>, <<"TEXT">>,
          <<"SUBCLASS", "_", "OF">>}

NoReference == [called |-> FALSE, mnemonic |-> <<>>, panic |-> FALSE,
                reference |-> ZeroReference]

\* A call of GetStandardPropertyReference, after init().
LookUp ==
    /\ populate.pc = NotRunning
    /\ populate.run >= 1
    /\ \E mnemonic \in Mnemonics :
          LET out == GetStandardPropertyReference(KnownProperties, mnemonic)
          IN  reference' = [called |-> TRUE, mnemonic |-> mnemonic,
                            panic |-> out.panic, reference |-> out.reference]
    /\ UNCHANGED <<KnownProperties, populate, before>>
    /\ UNCHANGED OutsideProperties

\* The package before init().
NewProperties ==
    /\ KnownProperties = <<>>
    /\ populate = [pc |-> NotRunning, run |-> 0, i |-> 1, j |-> 1]
    /\ before = <<>>
    /\ reference = NoReference

-----------------------------------------------------------------------------
(* compress as a function: one call after another, with any compression    *)
(* name, any data and any behaviour of the codec.                          *)

CompressionNames ==
    {compressionBrotli, compressionGzip, compressionDeflate,
     compressionIdentity, "", "zstd", "GZIP", "x-gzip", "compress"}

CompressData ==
    {<<>>, Run("x", 1), Run("x", minCompressionSize),
     Run("x", minCompressionSize + 1), BCat(Run("gzip", 1), Run("x", 7))}

NotCompressed == [data |-> <<>>, err |-> NoError, closed |-> FALSE]

NoCompression ==
    [called |-> FALSE, compression |-> compressionIdentity, data |-> <<>>,
     werr |-> NoError, cerr |-> NoError]

Compress ==
    /\ \E name \in CompressionNames, data \in CompressData, codec \in CodecErrors :
          /\ compressCall' = [called |-> TRUE, compression |-> name,
                              data |-> data,
                              werr |-> codec.werr, cerr |-> codec.cerr]
          /\ compressReturn' = compress(name, data, codec.werr, codec.cerr)
    /\ UNCHANGED OutsideCompress

NewCompress ==
    /\ compressCall = NoCompression
    /\ compressReturn = NotCompressed

-----------------------------------------------------------------------------
(* The set-up of logging in cli.Run (internal/cli/cli.go), and what the    *)
(* logger it makes does with an event.  Levels are zerolog's.              *)

TraceLevel == -1
DebugLevel == 0
InfoLevel == 1
WarnLevel == 2
ErrorLevel == 3
Disabled == 7

\* The levels and the console types the flags accept.
ConfigLevels == {TraceLevel, DebugLevel, InfoLevel, WarnLevel, ErrorLevel}

ConsoleTypes == {"color", "nocolor", "json", "disable"}

LoggingConfigs ==
    [ConsoleType : ConsoleTypes, ConsoleLevel : ConfigLevels,
     FilePath : {"", "/var/log/search.log"}, FileLevel : ConfigLevels]

\* The writers and the level after the switch on the console type.
ConsoleLogging(config) ==
    IF config.ConsoleType \in {"color", "nocolor", "json"}
    THEN [writers |-> <<[Writer |-> "console", Level |-> config.ConsoleLevel]>>,
          level |-> IF config.ConsoleLevel < Disabled
                    THEN config.ConsoleLevel ELSE Disabled]
    ELSE [writers |-> <<>>, level |-> Disabled]

\* The writers and the level after the file was opened.
FileLogging(config, console) ==
    IF config.FilePath # ""
    THEN [writers |-> Append(console.writers,
                             [Writer |-> "file", Level |-> config.FileLevel]),
          level |-> IF config.ConsoleLevel < console.level
                    THEN config.FileLevel ELSE console.level]
    ELSE console

NoLogger == [state |-> "none", writers |-> <<>>, level |-> Disabled]

NotLogged == [logged |-> FALSE, level |-> Disabled, written |-> {}]

\* cli.Run up to run(ctx): the logger is made, or the file cannot be opened
\* and it returns with exit code 1.
CliRun ==
    /\ logger.state = "none"
    /\ \E openFile \in {NoError, "open: permission denied"} :
          LET made == FileLogging(loggingConfig, ConsoleLogging(loggingConfig))
          IN  logger' =
                 IF loggingConfig.FilePath # "" /\ openFile # NoError
                 THEN [NoLogger EXCEPT !.state = "exit"]
                 ELSE [state |-> "running", writers |-> made.writers,
                       level |-> made.level]
    /\ UNCHANGED <<loggingConfig, logged>>
    /\ UNCHANGED OutsideLogging

\* filteredWriter.WriteLevel
WriteLevel(w, level) == level >= w.Level

\* An event of that level is logged: the logger drops it when it is below
\* the level of the logger (the global level is TraceLevel), otherwise the
\* multi-writer hands it to every writer.
Log ==
    /\ logger.state = "running"
    /\ \E level \in TraceLevel..ErrorLevel :
          logged' =
             [logged |-> TRUE, level |-> level,
              written |->
                 IF level < logger.level THEN {}
                 ELSE {logger.writers[n].Writer :
                         n \in {m \in DOMAIN logger.writers :
                                  WriteLevel(logger.writers[m], level)}}]
    /\ UNCHANGED <<loggingConfig, logger>>
    /\ UNCHANGED OutsideLogging

NewLogging ==
    /\ loggingConfig = [ConsoleType |-> "color", ConsoleLevel |-> InfoLevel,
                        FilePath |-> "", FileLevel |-> InfoLevel]
    /\ logger = NoLogger
    /\ logged = NotLogged

\* The Service before a request.
NewService ==
    /\ pc = "idle"
    /\ req = NoRequest
    /\ locals = NoLocals
    /\ esCalls = <<>>
    /\ esResult = NoResult
    /\ resp = NewResponseWriter

Init ==
    /\ service \in {[Development |-> ""],
                    [Development |-> "http://localhost:5173"]}
    /\ NewService
    /\ disk = [CertFile |-> 1, KeyFile |-> 1]
    /\ NewCertificateManager
    /\ NewProperties
    /\ NewCompress
    /\ NewLogging

Next ==
    \/ DocumentGetHTMLBegin
    \/ FollowRedirect
    \/ DocumentGetHTMLFinish
    \/ DocumentGetJSONBegin
    \/ DocumentGetJSONFinish
    \/ StaticFile
    \/ WriteJSON
    \/ ServeHTTPReturns

Spec == Init /\ [][Next]_vars

ManagerInit ==
    /\ service = [Development |-> ""]
    /\ NewService
    /\ disk \in [CertFile : 0..MaxKeyPairs, KeyFile : 0..MaxKeyPairs]
    /\ NewCertificateManager
    /\ NewProperties
    /\ NewCompress
    /\ NewLogging

ManagerNext ==
    \/ WriteCertFile
    \/ WriteKeyFile
    \/ Start
    \/ \E t \in {Main, Task} : reloadCertificateLoad(t)
    \/ \E t \in {Main, Task} : reloadCertificateLock(t)
    \/ \E t \in {Main, Task} : reloadCertificateLocked(t)
    \/ \E t \in {Main, Task} : reloadCertificateStore(t)
    \/ \E t \in {Main, Task} : reloadCertificateUnlock(t)
    \/ StartReturns
    \/ Tick
    \/ SelectTick
    \/ Stop
    \/ SelectDone
    \/ \E h \in Readers : GetCertificateRLock(h)
    \/ \E h \in Readers : GetCertificateRead(h)
    \/ \E h \in Readers : GetCertificateReturn(h)

ManagerSpec == ManagerInit /\ [][ManagerNext]_vars

\* The scheduler runs every goroutine that can take a step: the task, and
\* a handshake that holds the read lock.  Nothing obliges the environment
\* to rewrite files, the clock to tick, or anybody to call the manager.
ManagerFairness ==
    /\ WF_vars(reloadCertificateLoad(Task))
    /\ WF_vars(reloadCertificateLock(Task))
    /\ WF_vars(reloadCertificateLocked(Task))
    /\ WF_vars(reloadCertificateStore(Task))
    /\ WF_vars(reloadCertificateUnlock(Task))
    /\ WF_vars(SelectDone)
    /\ \A h \in Readers : WF_vars(GetCertificateRead(h))
    /\ \A h \in Readers : WF_vars(GetCertificateReturn(h))

ManagerLiveSpec == ManagerSpec /\ ManagerFairness

PropertiesInit ==
    /\ service = [Development |-> ""]
    /\ NewService
    /\ disk = [CertFile |-> 1, KeyFile |-> 1]
    /\ NewCertificateManager
    /\ NewProperties
    /\ NewCompress
    /\ NewLogging

PropertiesNext ==
    \/ populateStandardProperties
    \/ PopulateBuiltinProperty
    \/ PopulateClaimType
    \/ PopulateNext
    \/ PopulateReturns
    \/ LookUp

PropertiesSpec == PropertiesInit /\ [][PropertiesNext]_vars

CompressInit ==
    /\ service = [Development |-> ""]
    /\ NewService
    /\ disk = [CertFile |-> 1, KeyFile |-> 1]
    /\ NewCertificateManager
    /\ NewProperties
    /\ NewCompress
    /\ NewLogging

CompressNext == Compress

CompressSpec == CompressInit /\ [][CompressNext]_vars

LoggingInit ==
    /\ service = [Development |-> ""]
    /\ NewService
    /\ disk = [CertFile |-> 1, KeyFile |-> 1]
    /\ NewCertificateManager
    /\ NewProperties
    /\ NewCompress
    /\ loggingConfig \in LoggingConfigs
    /\ logger = NoLogger
    /\ logged = NotLogged

LoggingNext ==
    \/ CliRun
    \/ Log

LoggingSpec == LoggingInit /\ [][LoggingNext]_vars

-----------------------------------------------------------------------------
(* The properties.                                                         *)

InDocumentRoute == req.handler \in {"DocumentGetGetHTML", "DocumentGetGetJSON"}

InJSON == req.handler = "DocumentGetGetJSON"

InHTML == req.handler = "DocumentGetGetHTML"

\* C1: a request to the document route, HTML or JSON, whose id fails
\* identifier.Valid issues no request to the external engine, whatever its
\* Accept-Encoding, and is answered with a status of the 4xx class.
C1_InvalidIdIsRejectedBeforeTheEngine ==
    (InDocumentRoute /\ ~Valid(req.id)) =>
        /\ esCalls = <<>>
        /\ pc = "done"
        /\ resp.status \in 400..499

C1_Witness ==
    /\ InJSON
    /\ ~Valid(req.id)
    /\ req.AcceptEncoding = <<AE("gzip", 1000)>>
    /\ pc = "done"
    /\ resp.status = 400

\* Accept-Encoding read as RFC 7231 does: an encoding is acceptable when the
\* header names it with a weight above 0, or does not name it and has a
\* wildcard with a weight above 0; without either, identity alone is.
Accepts(ae, e) ==
    LET named == {i \in DOMAIN ae : ae[i].Value = e}
        star == {i \in DOMAIN ae : ae[i].Value = "*"}
    IN  IF named # {} THEN \E i \in named : ae[i].Q > 0
        ELSE IF star # {} THEN \E i \in star : ae[i].Q > 0
        ELSE e = "identity"

FirstAccepted(ae, offers) ==
    LET ok == {i \in DOMAIN offers : Accepts(ae, offers[i])}
    IN  IF ok = {} THEN ""
        ELSE offers[CHOOSE i \in ok : \A j \in ok : i <= j]

\* C2 as claimed: the JSON branch uses the first encoding of (brotli, gzip,
\* deflate, identity) that the client accepts, answers 406 exactly when the
\* client accepts none of the four, and does so before any engine call.
C2_FirstAcceptedOfFourIsUsed ==
    (InJSON /\ pc # "idle") =>
        LET first == FirstAccepted(req.AcceptEncoding,
                                   <<"br", "gzip", "deflate", "identity">>)
        IN  /\ resp.status = 406 <=> first = ""
            /\ first # "" => locals.contentEncoding = first
            /\ resp.status = 406 => esCalls = <<>>

Max(S) == CHOOSE x \in S : \A y \in S : y <= x

\* The weight an Accept-Encoding header gives an offer: the highest q of
\* the entries that name the offer or are the wildcard, -1 without any.
Weight(ae, offer) ==
    Max({-1} \cup {ae[i].Q : i \in {j \in DOMAIN ae : ae[j].Value \in {offer, "*"}}})

BestWeight(ae, offers) == Max({Weight(ae, offers[i]) : i \in DOMAIN offers})

Heaviest(ae, offers) ==
    IF BestWeight(ae, offers) = -1 THEN "identity"
    ELSE offers[CHOOSE i \in DOMAIN offers :
                   /\ Weight(ae, offers[i]) = BestWeight(ae, offers)
                   /\ \A j \in 1..(i - 1) :
                         Weight(ae, offers[j]) < BestWeight(ae, offers)]

\* C2, amended: the JSON branch negotiates against (gzip, deflate, identity),
\* never brotli; it uses the offer to which the header gives the highest
\* weight, the earlier one of equals, identity when no entry matches an
\* offer; it answers 406 exactly when that highest weight is 0, before any
\* engine call; the encoding used is the one forwarded to the engine.
C2_HeaviestOfThreeIsUsed ==
    (InJSON /\ pc # "idle") =>
        LET offers == <<"gzip", "deflate", "identity">>
            used == Heaviest(req.AcceptEncoding, offers)
        IN  /\ resp.status = 406 <=> BestWeight(req.AcceptEncoding, offers) = 0
            /\ resp.status # 406 => locals.contentEncoding = used
            /\ resp.status = 406 => esCalls = <<>>
            /\ \A i \in DOMAIN esCalls : esCalls[i].AcceptEncoding = used

C2_Witness ==
    /\ InJSON
    /\ pc = "es"
    /\ req.AcceptEncoding = <<AE("gzip", 500), AE("deflate", 1000)>>
    /\ locals.contentEncoding = "deflate"

\* The JSON handler has returned after its call of the external engine.
JSONAnswered == InJSON /\ pc = "done" /\ esCalls # <<>>

\* C3: in the JSON branch, for a valid id and an acceptable encoding, the
\* single GET /docs/_source/{id} decides the response: not found gives 404,
\* another failure that is neither a cancellation nor a deadline gives 500,
\* only a success gives 200, then with the engine's body; no body of the
\* engine is served after a failed call.
C3_EngineOutcomeDecidesJSONResponse ==
    JSONAnswered =>
        /\ Valid(req.id)
        /\ Len(esCalls) = 1
        /\ esCalls[1].Method = "GET"
        /\ esCalls[1].Path = <<"/docs/_source/", req.id>>
        /\ esResult.err = ErrNotFound => resp.status = 404
        /\ esResult.err = ErrOther => resp.status = 500
        /\ resp.status = 200 => esResult.err = NoError /\ resp.body = esResult.Body
        /\ esResult.err # NoError =>
              /\ resp.status \notin {200, 304}
              /\ resp.header.Etag = NoEtag
              /\ \A d \in StoredDocuments, e \in {"gzip", "deflate", "identity"} :
                    resp.body # EngineBody(d, e)

C3_Witness ==
    /\ JSONAnswered
    /\ esResult.err = ErrNotFound
    /\ resp.status = 404

\* The encodings the JSON branch can negotiate.
NegotiableEncodings ==
    {NegotiateContentEncoding(ae, DocumentOffers) : ae \in AcceptEncodings} \ {""}

\* The Etag the JSON handler gives the document it has just served, had the
\* request negotiated the encoding e.
EtagUnderEncoding(e) ==
    DocumentGetGetJSONEnd(req, MuxResponseWriter, e,
                          EngineSource(esResult.Document, e)).header.Etag

\* C4 as claimed: the Etag of a 200 JSON document response does not depend
\* on the negotiated encoding: the same stored document gets the same Etag
\* under every encoding that can be negotiated.
C4_EtagIndependentOfEncoding ==
    (JSONAnswered /\ resp.status = 200) =>
        \A e \in NegotiableEncodings : EtagUnderEncoding(e) = resp.header.Etag

\* C4, amended: the Etag of a 200 JSON document response is the digest of
\* the body bytes received from the engine, that is of the document in the
\* negotiated encoding: the same stored document gets the same Etag under
\* the same negotiated encoding and, the engine honouring the forwarded
\* Accept-Encoding, a different Etag under every other encoding.
C4_EtagIsOfTheEncodedBody ==
    (JSONAnswered /\ resp.status = 200) =>
        /\ resp.header.Etag = EtagOf(resp.body)
        /\ \A e \in NegotiableEncodings :
              EtagUnderEncoding(e) = resp.header.Etag <=> e = locals.contentEncoding

C4_Witness ==
    /\ JSONAnswered
    /\ resp.status = 200
    /\ locals.contentEncoding = "gzip"
    /\ "identity" \in NegotiableEncodings
    /\ EtagUnderEncoding("identity") # resp.header.Etag

\* The size of the payload of the response, before any encoding.
PayloadSize ==
    CASE req.handler = "writeJSON" -> BLen(MarshalWithoutEscapeHTML(req.data).data)
      [] req.handler = "DocumentGetGetJSON" -> BLen(esResult.Document)
      [] req.handler = "StaticFile" -> BLen(compressedFiles("identity", req.path))
      [] OTHER -> 0

\* C5: a response whose payload is at most 1024 bytes is served without a
\* Content-Encoding header, whatever the client's Accept-Encoding; in
\* writeJSON, in DocumentGetGetJSON and in staticFile.
C5_SmallPayloadIsServedIdentity ==
    (/\ pc = "done"
     /\ req.handler \in {"writeJSON", "DocumentGetGetJSON", "StaticFile"}
     /\ resp.status = 200
     /\ PayloadSize <= 1024) =>
        resp.header.ContentEncoding = None

WriteJSONAnswered == req.handler = "writeJSON" /\ pc = "done"

\* The Etag writeJSON gives the response it has just written, had the range
\* over the metadata yielded the keys in the order o.
EtagUnderOrder(o) ==
    writeJSON(NewResponseWriter, req, req.contentEncoding, req.data,
              req.metadata, o, req.codec.werr, req.codec.cerr).header.Etag

\* C6: the Etag of writeJSON is a function of the payload, the negotiated
\* encoding and the metadata map: it is the same whatever the order in which
\* the map is iterated.
C6_EtagIndependentOfIterationOrder ==
    (WriteJSONAnswered /\ resp.status = 200) =>
        \A o \in IterationOrders(req.metadata) :
            EtagUnderOrder(o) = resp.header.Etag

\* The Etags writeJSON can give the same data under the same encoding with
\* the metadata m.
EtagsUnderMetadata(m) ==
    {writeJSON(NewResponseWriter, req, req.contentEncoding, req.data,
               m, o, req.codec.werr, req.codec.cerr).header.Etag :
        o \in IterationOrders(m)}

\* C7: two responses of writeJSON with the same encoded body and different
\* metadata never have the same digest input, hence never the same Etag,
\* also when only the split between a name and its value, or between two
\* values, differs.
C7_DifferentMetadataDifferentEtag ==
    (WriteJSONAnswered /\ resp.status = 200) =>
        \A m \in Metadatas :
            m # req.metadata => resp.header.Etag \notin EtagsUnderMetadata(m)

Range(f) == {f[i] : i \in DOMAIN f}

\* The content encoding of a body, read off its first bytes.
EncodingOf(body) ==
    IF body # <<>> /\ body[1].c \in {"br", "gzip", "deflate"}
    THEN body[1].c ELSE "identity"

JSONResponse ==
    /\ pc = "done"
    /\ req.handler \in {"DocumentGetGetJSON", "writeJSON"}

CachingHeadersOf200 ==
    /\ resp.header.CacheControl = "no-cache"
    /\ "Accept-Encoding" \in Range(resp.header.Vary)
    /\ resp.header.XContentTypeOptions = "nosniff"
    /\ resp.header.Etag # NoEtag
    /\ resp.header.ContentEncoding # None <=> EncodingOf(resp.body) # "identity"
    /\ resp.header.ContentEncoding # None =>
          resp.header.ContentEncoding = EncodingOf(resp.body)
    /\ resp.header.ContentLength # NoContentLength <=>
          EncodingOf(resp.body) = "identity"

NoCachingHeaders ==
    /\ resp.header.CacheControl = None
    /\ "Accept-Encoding" \notin Range(resp.header.Vary)
    /\ resp.header.Etag = NoEtag
    /\ resp.header.ContentEncoding = None
    /\ resp.header.ContentLength = NoContentLength

\* C8 as claimed: a 200 JSON response carries Cache-Control: no-cache,
\* Vary: Accept-Encoding, X-Content-Type-Options: nosniff and an Etag, a
\* Content-Encoding exactly when its encoding is not identity and a
\* Content-Length exactly when it is; an error response (400, 404, 406, 500)
\* carries none of these headers.
C8_ErrorsCarryNoneOfTheHeaders ==
    JSONResponse =>
        /\ resp.status = 200 => CachingHeadersOf200
        /\ resp.status \in {400, 404, 406, 500} =>
              NoCachingHeaders /\ resp.header.XContentTypeOptions = None

\* C8, amended: as claimed for the 200 responses; an error response (400,
\* 404, 406, 500) carries no Cache-Control, no Vary: Accept-Encoding, no Etag,
\* no Content-Encoding and no Content-Length, but it does carry
\* X-Content-Type-Options: nosniff, which http.Error sets.
C8_ErrorsCarryOnlyNosniff ==
    JSONResponse =>
        /\ resp.status = 200 => CachingHeadersOf200
        /\ resp.status \in {400, 404, 406, 500} =>
              NoCachingHeaders /\ resp.header.XContentTypeOptions = "nosniff"

C8_Witness ==
    /\ WriteJSONAnswered
    /\ resp.status = 200
    /\ resp.header.ContentEncoding = "br"
    /\ req.metadata # <<>>

\* The Location of a redirect is the URL of the document of the request,
\* with the one parameter s = id when id is not "", bare when it is.
LocationIs(id) ==
    /\ resp.header.Location # NoLocation
    /\ resp.header.Location[1].Path = <<"/d/", req.id>>
    /\ resp.header.Location[1].Query =
          IF id = "" THEN <<>> ELSE <<<<"s", id>>>>

NoLocationCarriesQ ==
    resp.header.Location # NoLocation =>
        \A i \in DOMAIN resp.header.Location[1].Query :
            resp.header.Location[1].Query[i][1] # "q"

RedirectedWithoutCheck ==
    /\ pc = "done"
    /\ resp.status = 303
    /\ esCalls = <<>>
    /\ LocationIs(getSearch(req.Form).ID)

\* C9 as claimed: in the HTML branch a request with a valid id that carries
\* q or s is answered 303 without an existence check; the Location is the
\* document URL with only s when a session can be formed, the bare URL when
\* none can; no Location carries q.
C9_QueryOrSessionIsRedirected ==
    (InHTML /\ Valid(req.id) /\ pc # "idle") =>
        /\ (Has(req.Form, "s") \/ Has(req.Form, "q")) => RedirectedWithoutCheck
        /\ NoLocationCarriesQ

\* C9, amended: a request with a valid id that carries q, or that carries s
\* without a session that can be formed, is answered 303 without an
\* existence check, the Location as claimed; a request that carries s alone
\* with a session that can be formed is not redirected: it goes on to the
\* existence check; no Location carries q.
C9_QueryOrBadSessionIsRedirected ==
    (InHTML /\ Valid(req.id) /\ pc # "idle") =>
        /\ (Has(req.Form, "q") \/ (Has(req.Form, "s") /\ getSearch(req.Form) = NoSearch))
              => RedirectedWithoutCheck
        /\ (Has(req.Form, "s") /\ ~Has(req.Form, "q") /\ getSearch(req.Form) # NoSearch)
              => /\ resp.status # 303
                 /\ resp.header.Location = NoLocation
                 /\ Len(esCalls) = 1
        /\ NoLocationCarriesQ

C9_Witness ==
    /\ InHTML
    /\ req.Form = [s |-> <<"s1">>, q |-> <<"q1">>]
    /\ pc = "done"
    /\ resp.status = 303
    /\ LocationIs("s1")

\* The SPA shell went out: /index.html in some encoding, or the answer of the
\* development server.
IndexEtags ==
    {compressedFilesEtags(allCompressions[i], "/index.html") :
        i \in DOMAIN allCompressions}

ShellServed ==
    \/ resp.header.Etag \in IndexEtags
    \/ resp.body = Run("development server", 1)

\* The HTML handler took the path of the existence check.
HTMLNotRedirected ==
    /\ InHTML
    /\ Valid(req.id)
    /\ pc # "idle"
    /\ resp.status # 303

OneExistenceCheck ==
    /\ Len(esCalls) = 1
    /\ esCalls[1].Method = "HEAD"
    /\ esCalls[1].Path = <<"/docs/_doc/", req.id>>

\* C10 as claimed: in the HTML branch without a redirect exactly one HEAD
\* /docs/_doc/{id} is made; not found gives 404, any other failure 500, and
\* the SPA shell is served only after the check succeeded.
C10_AnyOtherFailureIs500 ==
    HTMLNotRedirected =>
        /\ OneExistenceCheck
        /\ pc = "done" =>
              /\ esResult.err = ErrNotFound => resp.status = 404
              /\ esResult.err \notin {NoError, ErrNotFound} => resp.status = 500
              /\ ShellServed => esResult.err = NoError

\* C10, amended: as claimed, except that a failure which is a cancellation
\* of the request's context or its deadline gives no response at all; any
\* other failure than these and not found gives 500.
C10_CheckDecidesHTMLResponse ==
    /\ InHTML => Len(esCalls) <= 1
    /\ HTMLNotRedirected =>
        /\ OneExistenceCheck
        /\ pc = "es" => resp.status = 0 /\ ~ShellServed
        /\ pc = "done" =>
              /\ esResult.err = ErrNotFound => resp.status = 404
              /\ esResult.err = ErrOther => resp.status = 500
              /\ esResult.err \in {ErrCanceled, ErrDeadlineExceeded} =>
                    resp.status = 0 /\ resp.body = <<>>
              /\ ShellServed => esResult.err = NoError
              /\ esResult.err = NoError => resp.status \in {200, 304, 406, 502}

C10_Witness ==
    /\ HTMLNotRedirected
    /\ pc = "done"
    /\ esResult.err = NoError
    /\ resp.status = 200
    /\ resp.header.Etag \in IndexEtags

\* The call of the external engine failed with err and the handler returned.
EngineCallFailedWith(errs) ==
    /\ pc = "done"
    /\ req.handler \in {"DocumentGetGetJSON", "DocumentGetGetHTML"}
    /\ Len(esCalls) = 1
    /\ esResult.err \in errs

\* writeJSON could not marshal the data or could not compress it.
WriteJSONFailed ==
    /\ WriteJSONAnswered
    /\ LET marshaled == MarshalWithoutEscapeHTML(req.data)
       IN  \/ marshaled.err # NoError
           \/ /\ BLen(marshaled.data) > minCompressionSize
              /\ req.contentEncoding # compressionIdentity
              /\ (req.codec.werr # NoError \/ req.codec.cerr # NoError)

NothingWritten ==
    /\ resp.status = 0
    /\ resp.body = <<>>
    /\ resp.header = MuxResponseWriter.header

Generic500 ==
    /\ resp.status = 500
    /\ resp.body = Run("500 internal server error", 1)
    /\ resp.header.Etag = NoEtag
    /\ resp.header.ContentEncoding = None

\* C11: when the call of the engine fails because the context of the request
\* was cancelled or its deadline exceeded, the handler writes no status and
\* no body and returns; every other internal failure (another engine
\* failure, a marshaling or a compression failure) is answered with the
\* generic 500.
C11_CancellationWritesNothing ==
    /\ EngineCallFailedWith({ErrCanceled, ErrDeadlineExceeded}) => NothingWritten
    /\ EngineCallFailedWith({ErrOther}) => Generic500
    /\ WriteJSONFailed => Generic500

C11_Witness ==
    /\ EngineCallFailedWith({ErrDeadlineExceeded})
    /\ req.handler = "DocumentGetGetJSON"
    /\ resp.status = 0

\* Start has returned nil.
Started == threads[Main].pc \in {"started", "send", "stopped"}

\* A thread is inside reloadCertificate between its load and its store.
ReloadInFlight ==
    \E t \in {Main, Task} : threads[t].pc \in {"Lock", "Locking", "store"}

\* C12: a reload that fails to load the key pair leaves the published
\* certificate as it is: after a successful Start the certificate is never
\* nil, GetCertificate never returns nil, and, outside the moment between a
\* load and its store, the certificate is the one of the most recent
\* successful load.
C12_FailedReloadKeepsTheCertificate ==
    /\ Started =>
          /\ certificate # NilCertificate
          /\ \A h \in Readers :
                readers[h].pc = "return" =>
                    readers[h].certificate # NilCertificate
    /\ ~ReloadInFlight => certificate = lastLoad
    /\ \A h \in Readers :
          (readers[h].pc = "return" /\ ~ReloadInFlight) =>
              readers[h].certificate = lastLoad

\* The task's last reload found the files unreadable, and a handshake gets
\* the certificate of the load before.
C12_Witness ==
    /\ Started
    /\ threads[Task].pc = "select"
    /\ threads[Task].err # NoError
    /\ threads[Task].certificate # NilCertificate
    /\ LoadX509KeyPair(disk).err # NoError
    /\ \E h \in Readers :
          /\ readers[h].pc = "return"
          /\ readers[h].certificate = threads[Task].certificate

\* Stop has been called, for the first time, and has not returned.
InStop == threads[Main].pc = "send" /\ threads[Main].stops = 1

StopReturned == threads[Main].pc = "stopped"

\* The first call of Stop has returned, whatever was called since.
StopHasReturned == StopReturned \/ threads[Main].stops >= 2

\* C13: Stop, called once after a successful Start, stops the ticker and
\* makes the background task exit: Stop eventually returns, also when a
\* reload is in progress or a tick is pending; when it has returned the
\* ticker is stopped and the task has exited; the task, once exited, stays
\* so; and no reloadCertificate starts after Stop has returned.
C13_StopEndsTheTask ==
    /\ InStop ~> StopReturned
    /\ [](InStop \/ StopHasReturned => ticker.state = "stopped")
    /\ [](StopHasReturned <=> threads[Task].pc = "exited")
    /\ [][threads[Task].pc = "exited" => threads'[Task].pc = "exited"]_vars
    /\ [][StopHasReturned =>
            \A t \in {Main, Task} :
                threads'[t].pc = "reloadCertificate" =>
                    threads[t].pc = "reloadCertificate"]_vars

\* Stop has returned although a tick was pending when the task was told.
C13_Witness ==
    /\ StopReturned
    /\ threads[Task].pc = "exited"
    /\ ticker.C = 1

\* A complete key pair: the certificate and the private key of one load.
CompleteKeyPair(c) ==
    /\ c.Certificate \in 1..MaxKeyPairs
    /\ c.PrivateKey = c.Certificate
    /\ \E files \in [CertFile : 1..MaxKeyPairs, KeyFile : 1..MaxKeyPairs] :
          LoadX509KeyPair(files) = [certificate |-> c, err |-> NoError]

HoldsWriteLock(t) == threads[t].pc \in {"store", "Unlock"}

HoldsReadLock(h) == readers[h].pc \in {"RLocked", "return"}

\* C14: readers and writers of the certificate exclude each other: the
\* write lock is held by at most one reload and then no reader holds the
\* read lock, the certificate changes only in a step taken under the write
\* lock with no reader inside, and what GetCertificate returns is nil
\* before anything was published and otherwise, so always after Start, a
\* complete key pair of one successful load.  (Two readers can hold the read
\* lock together: the witness.)
C14_ReadersNeverSeePartialUpdate ==
    /\ [](/\ mu.writer <=> \E t \in {Main, Task} : HoldsWriteLock(t)
          /\ ~(HoldsWriteLock(Main) /\ HoldsWriteLock(Task))
          /\ mu.readers = {h \in Readers : HoldsReadLock(h)}
          /\ mu.writer => mu.readers = {})
    /\ [][certificate' # certificate => mu.writer /\ mu.readers = {}]_vars
    /\ [](\A h \in Readers :
            readers[h].pc = "return" =>
                /\ readers[h].certificate = certificate
                /\ \/ CompleteKeyPair(readers[h].certificate)
                   \/ readers[h].certificate = NilCertificate /\ ~Started)

\* Both handshakes hold the read lock, one about to return a key pair, while
\* a reload waits for the write lock.
C14_Witness ==
    /\ mu.readers = Readers
    /\ threads[Task].pc = "Locking"
    /\ threads[Task].certificate # certificate
    /\ \E h \in Readers :
          readers[h].pc = "return" /\ CompleteKeyPair(readers[h].certificate)

\* populateStandardProperties is running again on the table of a run
\* before, or has done so.
SecondRun == populate.run >= 2

Bootstrapped == populate.pc = NotRunning /\ populate.run >= 1

\* C15: the bootstrap is idempotent: a second run of
\* populateStandardProperties on the table of the first run ends with the
\* same table, key by key and document by document (identifier, mnemonic,
\* name, claims and their identifiers, in order); indeed no assignment of
\* the second run changes the table, and no key is added or removed.
C15_BootstrapIsIdempotent ==
    SecondRun =>
        /\ KnownProperties = before
        /\ DOMAIN KnownProperties = DOMAIN before
        /\ \A id \in DOMAIN KnownProperties :
              /\ KnownProperties[id].ID = before[id].ID
              /\ KnownProperties[id].Mnemonic = before[id].Mnemonic
              /\ KnownProperties[id].Name = before[id].Name
              /\ KnownProperties[id].Text = before[id].Text
              /\ KnownProperties[id].Relation = before[id].Relation

C15_Witness ==
    /\ SecondRun
    /\ populate.pc = NotRunning
    /\ Cardinality(DOMAIN before) = Len(builtinProperties) + Len(claimTypes)
    /\ \E id \in DOMAIN KnownProperties : Len(KnownProperties[id].Relation) = 2

\* The identifier of the standard property with that mnemonic, as a caller
\* gets it.
StandardID(mnemonic) ==
    GetStandardPropertyReference(KnownProperties, mnemonic).reference.ID

IsRelationTo(claim, mnemonic) ==
    /\ claim.Prop.ID = StandardID(IS)
    /\ claim.To.ID = StandardID(mnemonic)

\* The documents that mark a claim type.
ClaimTypeMarkers ==
    {id \in DOMAIN KnownProperties :
        \E n \in DOMAIN claimTypes :
            KnownProperties[id].Name = ClaimTypeName(claimTypes[n])}

\* C16: after the bootstrap every document of KnownProperties has exactly
\* one Text claim, of confidence 1.0 and with the DESCRIPTION property as
\* its Prop, and at least one Relation claim IS -> PROPERTY; there is a
\* marker document for every claim type name, and every marker document
\* has a Relation claim IS -> CLAIM_TYPE as well.
C16_EveryDocumentIsDescribedAndTyped ==
    Bootstrapped =>
        /\ \A id \in DOMAIN KnownProperties :
              LET document == KnownProperties[id]
              IN  /\ Len(document.Text) = 1
                  /\ document.Text[1].Confidence = 1
                  /\ document.Text[1].Prop.ID = StandardID(DESCRIPTION)
                  /\ document.Text[1].Plain # <<>>
                  /\ \E n \in DOMAIN document.Relation :
                        IsRelationTo(document.Relation[n], PROPERTY)
        /\ Cardinality(ClaimTypeMarkers) = Len(claimTypes)
        /\ \A id \in ClaimTypeMarkers :
              \E n \in DOMAIN KnownProperties[id].Relation :
                  IsRelationTo(KnownProperties[id].Relation[n], CLAIM_TYPE)

C16_Witness ==
    /\ Bootstrapped
    /\ populate.run = 1
    /\ ClaimTypeMarkers # {}
    /\ DOMAIN KnownProperties \ ClaimTypeMarkers # {}
    /\ {IS, PROPERTY, DESCRIPTION, CLAIM_TYPE} \subseteq
          {KnownProperties[id].Mnemonic : id \in DOMAIN KnownProperties}

\* The documents registered under that mnemonic.
RegisteredAs(mnemonic) ==
    {id \in DOMAIN KnownProperties : KnownProperties[id].Mnemonic = mnemonic}

\* C17: GetStandardPropertyReference never returns an empty reference: for
\* a mnemonic registered by the bootstrap it returns the reference whose ID
\* is the identifier derived from the mnemonic and whose name is the name
\* of the registered document; for any other mnemonic it panics.
C17_UnknownMnemonicPanics ==
    reference.called =>
        /\ RegisteredAs(reference.mnemonic) # {} =>
              /\ ~reference.panic
              /\ reference.reference.ID = getPropertyID(reference.mnemonic)
              /\ \A id \in RegisteredAs(reference.mnemonic) :
                    /\ reference.reference.ID = id
                    /\ reference.reference.Name = KnownProperties[id].Name
        /\ RegisteredAs(reference.mnemonic) = {} => reference.panic
        /\ ~reference.panic =>
              /\ reference.reference # ZeroReference
              /\ reference.reference.ID # <<>>
              /\ reference.reference.Name # <<>>

\* The lower-case name of a property is not its mnemonic: the call panics.
C17_Witness ==
    /\ reference.called
    /\ reference.mnemonic = <<"is">>
    /\ getMnemonic(reference.mnemonic) = IS
    /\ reference.panic

\* The response carries the content of an asset, or tells the client that
\* its copy is still good.
Served == resp.status \in {200, 304}

StaticRouteAnswered == req.handler = "StaticFile" /\ pc = "done"

\* The HTML handler answered with the /index.html of the service itself.
IndexServed == InHTML /\ pc = "done" /\ resp.header.Etag \in IndexEtags

\* C18: the cache policy follows the role of the asset: the static routes
\* are all the known asset paths except /index.html, a response that
\* serves one of them carries the long-lived immutable Cache-Control with
\* stale-while-revalidate, and a response that serves /index.html, which
\* only the HTML handler does, carries Cache-Control: no-cache.
C18_CachePolicyFollowsTheRole ==
    /\ serveStaticFiles = StaticPaths \ {"/index.html"}
    /\ StaticRouteAnswered =>
          /\ req.path # "/index.html"
          /\ resp.header.Etag \notin IndexEtags
          /\ Served =>
                resp.header.CacheControl =
                    "public,max-age=31536000,immutable,stale-while-revalidate=86400"
          /\ ~Served => resp.header.CacheControl = None
    /\ IndexServed => Served /\ resp.header.CacheControl = "no-cache"
    /\ resp.header.Etag \in IndexEtags => InHTML

C18_Witness ==
    /\ StaticRouteAnswered
    /\ req.path = "/assets/app.js"
    /\ resp.status = 200
    /\ resp.header.ContentEncoding = "br"
    /\ resp.header.CacheControl # "no-cache"

KnownCompressions == {allCompressions[n] : n \in DOMAIN allCompressions}

\* C19: compress returns the input unchanged and no error for identity, and
\* for a compression name that is none of br, gzip, deflate and identity an
\* error and no data: the input is never handed back under an unknown name.
C19_UnknownCompressionIsAnError ==
    compressCall.called =>
        /\ compressCall.compression = compressionIdentity =>
              compressReturn.data = compressCall.data /\ compressReturn.err = NoError
        /\ compressCall.compression \notin KnownCompressions =>
              /\ compressReturn.err # NoError
              /\ compressReturn.data = <<>>
              /\ compressCall.data # <<>> => compressReturn.data # compressCall.data

C19_Witness ==
    /\ compressCall.called
    /\ compressCall.compression = "GZIP"
    /\ compressCall.data # <<>>
    /\ compressReturn.err # NoError

\* The call went to one of the three codecs.
CodecCall ==
    /\ compressCall.called
    /\ compressCall.compression \in
          {compressionBrotli, compressionGzip, compressionDeflate}

\* C20: for brotli, gzip and deflate, compress always closes the writer; it
\* returns an error and nil data when the write or the close failed: the
\* error of the write when the write failed, whatever the close did, the
\* error of the close only when the write succeeded; it returns compressed
\* data only when both succeeded.
C20_WriteErrorBeforeCloseError ==
    CodecCall =>
        /\ compressReturn.closed
        /\ compressCall.werr # NoError =>
              compressReturn.err = compressCall.werr /\ compressReturn.data = <<>>
        /\ (compressCall.werr = NoError /\ compressCall.cerr # NoError) =>
              compressReturn.err = compressCall.cerr /\ compressReturn.data = <<>>
        /\ (compressCall.werr = NoError /\ compressCall.cerr = NoError) =>
              /\ compressReturn.err = NoError
              /\ compressReturn.data = Frame(compressCall.compression, compressCall.data)
        /\ compressReturn.data # <<>> => compressReturn.err = NoError

\* The write and the close both failed.
C20_Witness ==
    /\ CodecCall
    /\ compressCall.werr # NoError
    /\ compressCall.cerr # NoError
    /\ compressReturn.err = compressCall.werr
    /\ compressReturn.closed

\* Start has returned the error of the first load.
StartFailed == threads[Main].pc = "failed"

NothingStarted ==
    /\ ticker = NilTicker
    /\ done = "nil"
    /\ threads[Task].pc = "none"

\* C21: Start loads the key pair once, synchronously, before anything
\* else: while that load is under way there is no ticker, no channel and
\* no task; if it fails, Start returns its error, nothing is started and
\* no certificate is published; if it succeeds, the certificate is
\* published when Start returns, and the task begins a reload only by
\* taking a tick from the ticker, hence never before the first load.
C21_StartLoadsFirst ==
    /\ [](~Started => NothingStarted)
    /\ [](StartFailed =>
            /\ threads[Main].err # NoError
            /\ certificate = NilCertificate
            /\ lastLoad = NilCertificate)
    /\ [](Started => certificate # NilCertificate /\ lastLoad # NilCertificate)
    /\ [][StartFailed => StartFailed' /\ NothingStarted']_vars
    /\ [][(threads[Task].pc # "reloadCertificate"
           /\ threads'[Task].pc = "reloadCertificate") =>
              /\ Started
              /\ threads[Task].pc = "select"
              /\ ticker.C = 1
              /\ ticker'.C = 0]_vars

\* The key does not belong to the certificate: Start has failed.
C21_Witness ==
    /\ StartFailed
    /\ threads[Main].err = "tls: private key does not match public key"
    /\ NothingStarted

\* The mnemonic of the document a reference points to.
MnemonicOf(ref) == KnownProperties[ref.ID].Mnemonic

\* C22: in every document of the bootstrap the identifier of a Relation
\* claim is derived from the mnemonic of the document, the mnemonic of the
\* target of the relation and the index (which is always 0), and no two
\* Relation claims of one document (is -> property, is -> claim type, an
\* extra "is" relation) have the same identifier; the same goes for the
\* Text claims.
C22_ClaimIdentifiersAreDistinct ==
    /\ \A id \in DOMAIN KnownProperties :
          LET document == KnownProperties[id]
          IN  /\ \A m, n \in DOMAIN document.Relation :
                    m # n => document.Relation[m].ID # document.Relation[n].ID
              /\ \A m, n \in DOMAIN document.Text :
                    m # n => document.Text[m].ID # document.Text[n].ID
    /\ Bootstrapped =>
          \A id \in DOMAIN KnownProperties :
              LET document == KnownProperties[id]
              IN  /\ \A n \in DOMAIN document.Relation :
                        /\ document.Relation[n].To.ID \in DOMAIN KnownProperties
                        /\ document.Relation[n].ID =
                              getPropertyClaimID(document.Mnemonic,
                                                 MnemonicOf(document.Relation[n].To), 0)
                  /\ \A n \in DOMAIN document.Text :
                        /\ document.Text[n].Prop.ID \in DOMAIN KnownProperties
                        /\ document.Text[n].ID =
                              getPropertyClaimID(document.Mnemonic,
                                                 MnemonicOf(document.Text[n].Prop), 0)

\* The description property: is -> property and the extra is -> "text"
\* claim type.
C22_Witness ==
    /\ Bootstrapped
    /\ \E id \in DOMAIN KnownProperties :
          /\ KnownProperties[id].Mnemonic = DESCRIPTION
          /\ Len(KnownProperties[id].Relation) = 2
          /\ KnownProperties[id].Relation[2].To.Name = ClaimTypeName(<<"text">>)
          /\ KnownProperties[id].Relation[1].ID # KnownProperties[id].Relation[2].ID

\* Stop has been called again after it had returned.
InSecondStop == threads[Main].stops >= 2

\* C23: Stop is not guarded against a second call: a Stop called after the
\* first Stop has returned, so after the task has exited, never returns:
\* it stays in its send on the done channel, which nobody receives from
\* any more.
C23_SecondStopNeverReturns ==
    /\ [](InSecondStop =>
            /\ threads[Main].pc = "send"
            /\ threads[Task].pc = "exited"
            /\ ~ENABLED SelectDone)
    /\ [][InSecondStop => InSecondStop' /\ threads'[Main] = threads[Main]]_vars

C23_Witness ==
    /\ InSecondStop
    /\ threads[Main].pc = "send"
    /\ threads[Task].pc = "exited"
    /\ ticker.state = "stopped"

\* The query of the URL of a request, as url.Values.Encode writes it.
RequestQuery(form) ==
    (IF Has(form, "q") THEN <<<<"q", form.q[1]>>>> ELSE <<>>)
    \o (IF Has(form, "s") THEN <<<<"s", form.s[1]>>>> ELSE <<>>)

HTMLRedirected == InHTML /\ pc = "done" /\ resp.status = 303

\* C24: following the redirects of the HTML branch ends: whatever q and s
\* the first request for a valid id carries, the client comes to an answer
\* that is no redirect after at most two redirects (the session lookup
\* being a function of s and q), and the handler never redirects a URL to
\* itself.
C24_RedirectsEnd ==
    /\ InHTML => req.redirects <= 2
    /\ (InHTML /\ req.redirects >= 2) => resp.status # 303
    /\ HTMLRedirected =>
          /\ Valid(req.id)
          /\ resp.header.Location[1] # DocumentPath(req.id, RequestQuery(req.Form))
          /\ ParseForm(resp.header.Location[1].Query) # req.Form

\* The client has followed the redirect of a request with q and has come
\* to the existence check.
C24_Witness ==
    /\ InHTML
    /\ req.redirects = 1
    /\ req.Form = [s |-> <<"s1">>, q |-> <<>>]
    /\ pc = "done"
    /\ resp.status = 200

\* A reference names a document of the table, by its name.
Closed(ref) ==
    /\ ref.ID \in DOMAIN KnownProperties
    /\ ref.Name = KnownProperties[ref.ID].Name

\* The names the table is to have documents for.
BuiltinNames ==
    {builtinProperties[n].Name : n \in DOMAIN builtinProperties}
    \cup {ClaimTypeName(claimTypes[n]) : n \in DOMAIN claimTypes}

\* C25: after the bootstrap the table is keyed consistently and closed
\* under reference: every key is the ID of its document and the identifier
\* derived from the document's mnemonic; every Prop and every To of every
\* claim is a key of the table and carries the name of the document under
\* that key; and the table has exactly one document for each built-in
\* property and one for each claim type name.
C25_TableIsClosedAndConsistentlyKeyed ==
    Bootstrapped =>
        /\ \A id \in DOMAIN KnownProperties :
              LET document == KnownProperties[id]
              IN  /\ document.ID = id
                  /\ id = getPropertyID(document.Mnemonic)
                  /\ document.Mnemonic = getMnemonic(document.Name)
                  /\ \A n \in DOMAIN document.Text : Closed(document.Text[n].Prop)
                  /\ \A n \in DOMAIN document.Relation :
                        /\ Closed(document.Relation[n].Prop)
                        /\ Closed(document.Relation[n].To)
        /\ {KnownProperties[id].Name : id \in DOMAIN KnownProperties} = BuiltinNames
        /\ Cardinality(DOMAIN KnownProperties) = Cardinality(BuiltinNames)
        /\ Cardinality(BuiltinNames) = Len(builtinProperties) + Len(claimTypes)

\* The extra "is" relation of a property refers to the marker document of
\* a claim type, by its quoted name.
C25_Witness ==
    /\ Bootstrapped
    /\ \E id \in DOMAIN KnownProperties :
          /\ KnownProperties[id].Name = <<"Wikidata", Space, "item", Space, "id">>
          /\ Len(KnownProperties[id].Relation) = 2
          /\ Closed(KnownProperties[id].Relation[2].To)
          /\ KnownProperties[id].Relation[2].To.Name = ClaimTypeName(<<"identifier">>)

\* The writers the configuration enables, with their levels.
EnabledWriters ==
    (IF loggingConfig.ConsoleType # "disable"
     THEN {[Writer |-> "console", Level |-> loggingConfig.ConsoleLevel]} ELSE {})
    \cup (IF loggingConfig.FilePath # ""
          THEN {[Writer |-> "file", Level |-> loggingConfig.FileLevel]} ELSE {})

\* The least of the levels of the enabled writers, Disabled without any.
MinLevel ==
    IF EnabledWriters = {} THEN Disabled
    ELSE CHOOSE l \in {w.Level : w \in EnabledWriters} :
            \A w \in EnabledWriters : l <= w.Level

\* C26: in cli.Run, whatever the console type, the console level, the file
\* path and the file level, the level of the logger is the least of the
\* levels of the enabled writers, so that an event comes to an enabled
\* writer exactly when its level is at or above the level of that writer.
C26_LoggerLevelIsTheMinimum ==
    logger.state = "running" =>
        /\ logger.level = MinLevel
        /\ logged.logged =>
              \A w \in EnabledWriters :
                  w.Writer \in logged.written <=> logged.level >= w.Level

====
